---------------------------- MODULE Spec2Model ----------------------------
(***************************************************************************)
(* A model of the market-data pipeline of market-system:                   *)
(*   - the fan-out hub (services/api/internal/websocket): Hub, Client,     *)
(*     SubscriptionManager, Broadcaster;                                    *)
(*   - the fusion engine (services/collector/internal/merger): DataMerger;  *)
(*   - the collector pipeline (adapters -> Collector.handleMarketData ->    *)
(*     KafkaPublisher -> broker partitions -> KafkaConsumer);               *)
(*   - the processor (services/processor): KlineHandler, KlineAggregator,   *)
(*     DepthManager, RedisStorage, and the candle times of common/utils;    *)
(*   - the venue adapters (BinanceAdapter, OKXAdapter): Connect, Subscribe, *)
(*     and the reconnect of readMessages and keepAlive with resubscribe.    *)
(* Each component has its own specification; the variables of the other     *)
(* components keep their initial values.                                    *)
(***************************************************************************)
EXTENDS Integers, Sequences, FiniteSets, TLC

VARIABLES
    \* ---- SubscriptionManager (subscription.go) ----
    channelSubscribers,   \* map channel -> set of clients (a function whose DOMAIN is the key set)
    clientSubscriptions,  \* map client  -> set of channels
    \* ---- Hub (hub.go) ----
    clients,              \* h.clients: the registered clients
    register,             \* h.register: buffered channel, as the sequence of its contents
    unregister,           \* h.unregister
    broadcast,            \* h.broadcast
    stopChan,             \* "open" | "closed"
    hubpc,                \* position of Hub.Run: "select" | "bcast" | "blocked" | "stopped"
    bcMsg,                \* the message broadcastToChannel is working on
    bcTodo,               \* clients of the GetSubscribers copy not yet visited by the loop
    \* ---- Client (client.go) ----
    send,                 \* client.send: contents of each client's buffered channel
    closed,               \* client.send has been closed
    readerpc,             \* position of readPump: "none" | "run" | "respond" | "exit" | "done"
    resp,                 \* the frame handleSubscribe/handleUnsubscribe is about to send
    writerpc,             \* position of writePump: "none" | "run" | "done"
    crashed,              \* the process has panicked (send on, or close of, a closed channel)
    \* ---- history (a value the code does not store) ----
    mark,                 \* per client: "none" | "full" (a broadcast found its queue full)
                          \*   | "next" (a later broadcast has begun)
                          \*   | "missed" (that later broadcast completed with the client still indexed)
    \* ---- DataMerger (merger.go) ----
    symbolConfigs,        \* map symbol -> SymbolConfig
    internalData,         \* map symbol -> CachedData
    externalData,         \* map symbol -> CachedData
    now,                  \* time.Now().UnixMilli()
    ret,                  \* what the last call returned (Nil: nothing)
    lastIn,               \* the argument of the last call
    \* ---- collector pipeline (collector main, publisher/kafka.go, consumer/kafka.go) ----
    nextId,               \* the id the next upstream trade or ticker carries
    counters,             \* per topic: the byte counters of the writer's LeastBytes balancer
    batches,              \* per topic and partition: messages the async writer has not sent yet
    logs,                 \* per topic and partition: the broker's log
    offsets,              \* per topic and partition: the consumer's next offset
    handled,              \* per topic: the records passed to the topic handler, in order
    \* ---- processor (handler/kline.go, handler/depth.go, storage/redis.go, utils/time.go) ----
    zone,                 \* time.Local: the time zone of the process
    aggregators,          \* h.aggregators: map <<symbol, interval>> -> the aggregator's currentKline
    klines,               \* the store's lists kline:{symbol}:{interval}, head first
    tradeCount,           \* number of trades handled so far
    managers,             \* h.managers: map symbol -> the DepthManager's bids and asks
    depths,               \* the store's strings depth:{symbol}
    handed,               \* history: the book of the last call of storage.SaveDepth
    depthCount,           \* number of depth records handled so far
    \* ---- exchange adapter (merger.go: BinanceAdapter, OKXAdapter) ----
    venue,                \* which adapter this is: "binance" | "okx"
    conn,                 \* b.conn, as the number of the session it belongs to (0: nil)
    connected,            \* b.connected
    subscriptions,        \* b.subscriptions
    appending,            \* <<the streams Subscribe is appending under b.mu>>, or <<>> with b.mu free
    routines,             \* position, retries and built frame of each readMessages / keepAlive goroutine
    registered,           \* history: the streams of the frames Subscribe has written
    resent,               \* history: the frame the last step wrote, if resubscribe wrote it
    subscribeCalls,       \* number of calls of Subscribe so far
    sessions,             \* per session opened: transport up, and history of the frames written on it
    reconnect,            \* b.reconnect
    closeChan,            \* b.closeChan: "open" | "closed"
    panicked,             \* the process has panicked
    attempts,             \* history: failed Connect calls in a row, and the wait before the last call
    dispatched,           \* history: the session of the record the last step gave to the handler (0: none)
    written,              \* history: per client, the frames writePump has written to the socket
    queued,               \* history: per client, the frames that entered client.send
    batch,                \* per client, the n of writePump's batch loop still to receive
    handler,              \* b.handler is set
    inbound,              \* history: the frame of the last call of handleMessage
    emitted,              \* history: the record that call gave to the handler
    clock,                \* time.Now(), in seconds since the adapter was built
    lastPong,             \* b.lastPong, in seconds since the adapter was built
    keeper,               \* the keepAlive goroutine of the session in place: its ticker and its session
    lastOp                \* name of the last operation that acted

pumpVars == <<written, queued, batch>>

hubVars == <<channelSubscribers, clientSubscriptions, clients, register, unregister,
             broadcast, stopChan, hubpc, bcMsg, bcTodo, send, closed, readerpc, resp,
             writerpc, crashed, mark, pumpVars>>

mergerVars == <<symbolConfigs, internalData, externalData, now, ret, lastIn>>

pipeVars == <<nextId, counters, batches, logs, offsets, handled>>

procVars == <<zone, aggregators, klines, tradeCount, managers, depths, handed, depthCount>>

sessionVars == <<sessions, reconnect, closeChan, panicked, attempts, dispatched>>

frameVars == <<handler, inbound, emitted>>

beatVars == <<clock, lastPong, keeper>>

adapterVars == <<venue, conn, connected, subscriptions, appending, routines, registered,
                 resent, subscribeCalls, sessionVars, frameVars, beatVars>>

vars == <<hubVars, mergerVars, pipeVars, procVars, adapterVars, lastOp>>

\* what the operations of the hub leave alone
notHub == <<mergerVars, pipeVars, procVars, adapterVars, pumpVars>>

-----------------------------------------------------------------------------
(* Bounds of the model *)

\* number of client sessions that may connect
NumClients == 2

\* capacity of client.send (256 in the code), scaled down
SendCap == 1

\* capacity of h.unregister (256 in the code), scaled down
UnregisterCap == 1

\* capacity of h.register (256 in the code), scaled down
RegisterCap == 1

\* capacity of h.broadcast (1024 in the code), scaled down
BroadcastCap == 1

Clients == 1..NumClients

Channels == {"ticker:BTCUSDT", "depth:BTCUSDT", "trade:BTCUSDT"}

\* the channels sessions of the hub specification subscribe to and the bridge publishes on
HubChannels == {"ticker:BTCUSDT", "depth:BTCUSDT"}

\* the channel the sessions' peers ask for
AskedChannels == {"ticker:BTCUSDT"}

\* the sessions whose peer sends every kind of control message and may drop the
\* connection; the peer of any other session only subscribes and keeps reading
Talkative == {1}

\* payloads carried by bus messages
DataIds == {"d1"}

NoMsg == [channel |-> "", data |-> ""]

-----------------------------------------------------------------------------
(* Go maps as functions with a varying DOMAIN *)

EmptyMap == [x \in {} |-> {}]

MapPut(m, k, v) == [x \in (DOMAIN m) \cup {k} |-> IF x = k THEN v ELSE m[x]]

MapDel(m, k) == [x \in (DOMAIN m) \ {k} |-> m[x]]

-----------------------------------------------------------------------------
(* SubscriptionManager: each operation takes and returns the pair of maps,  *)
(* as the code runs each under sm.mu.                                       *)

SM(cs, cl) == [channelSubscribers |-> cs, clientSubscriptions |-> cl]

\* a plausible bug: the reverse map is not updated
SubscribeOneWay(sm, client, channel) ==
    LET cs0 == sm.channelSubscribers
        cs1 == IF channel \notin DOMAIN cs0 THEN MapPut(cs0, channel, {}) ELSE cs0
    IN SM(MapPut(cs1, channel, cs1[channel] \cup {client}), sm.clientSubscriptions)

Subscribe(sm, client, channel) ==
    LET cs0 == sm.channelSubscribers
        cl0 == sm.clientSubscriptions
        cs1 == IF channel \notin DOMAIN cs0 THEN MapPut(cs0, channel, {}) ELSE cs0
        cs2 == MapPut(cs1, channel, cs1[channel] \cup {client})
        cl1 == IF client \notin DOMAIN cl0 THEN MapPut(cl0, client, {}) ELSE cl0
        cl2 == MapPut(cl1, client, cl1[client] \cup {channel})
    IN SM(cs2, cl2)

Unsubscribe(sm, client, channel) ==
    LET cs0 == sm.channelSubscribers
        cl0 == sm.clientSubscriptions
        cs1 == IF channel \in DOMAIN cs0
               THEN LET subscribers == cs0[channel] \ {client}
                    IN IF subscribers = {} THEN MapDel(cs0, channel)
                                           ELSE MapPut(cs0, channel, subscribers)
               ELSE cs0
        cl1 == IF client \in DOMAIN cl0
               THEN LET channels == cl0[client] \ {channel}
                    IN IF channels = {} THEN MapDel(cl0, client)
                                        ELSE MapPut(cl0, client, channels)
               ELSE cl0
    IN SM(cs1, cl1)

\* the loop of UnsubscribeAll over the client's channels, one channel per step
RECURSIVE RemoveFromChannels(_, _, _)
RemoveFromChannels(cs, client, channels) ==
    IF channels = {} THEN cs
    ELSE LET channel == CHOOSE ch \in channels : TRUE
             cs1 == IF channel \in DOMAIN cs
                    THEN LET subscribers == cs[channel] \ {client}
                         IN IF subscribers = {} THEN MapDel(cs, channel)
                                                ELSE MapPut(cs, channel, subscribers)
                    ELSE cs
         IN RemoveFromChannels(cs1, client, channels \ {channel})

UnsubscribeAll(sm, client) ==
    IF client \notin DOMAIN sm.clientSubscriptions THEN sm
    ELSE SM(RemoveFromChannels(sm.channelSubscribers, client, sm.clientSubscriptions[client]),
            MapDel(sm.clientSubscriptions, client))

\* a plausible bug: the subscribers of every channel are returned
GetSubscribersAnyChannel(sm, channel) ==
    UNION {sm.channelSubscribers[ch] : ch \in DOMAIN sm.channelSubscribers}

GetSubscribers(sm, channel) ==
    IF channel \notin DOMAIN sm.channelSubscribers THEN {}
    ELSE sm.channelSubscribers[channel]

CurSM == SM(channelSubscribers, clientSubscriptions)


-----------------------------------------------------------------------------
(* Values of the other components' variables in a specification that does  *)
(* not run them.                                                            *)

Nil == [nil |-> TRUE]

MergerIdle ==
    /\ symbolConfigs = EmptyMap
    /\ internalData = EmptyMap
    /\ externalData = EmptyMap
    /\ now = 0
    /\ ret = Nil
    /\ lastIn = Nil

PipeIdle ==
    /\ nextId = 1
    /\ counters = EmptyMap
    /\ batches = EmptyMap
    /\ logs = EmptyMap
    /\ offsets = EmptyMap
    /\ handled = EmptyMap

\* a time zone with at most one change of its offset from UTC: the offset (ms)
\* before and from the instant `at` (ms since the epoch), and which of the two
\* offsets time.Date takes for a wall clock that occurs twice or not at all
\* around the change (the library does not promise which)
Zone(at, before, after, prefer) ==
    [at |-> at, before |-> before, after |-> after, prefer |-> prefer]

UTC == Zone(0, 0, 0, "before")

ProcIdle ==
    /\ zone = UTC
    /\ aggregators = EmptyMap
    /\ klines = EmptyMap
    /\ tradeCount = 0
    /\ managers = EmptyMap
    /\ depths = EmptyMap
    /\ handed = Nil
    /\ depthCount = 0

\* NewBinanceAdapter / NewOKXAdapter: no connection, nothing subscribed, no goroutine started
AdapterIdle ==
    /\ venue = "binance"
    /\ conn = 0
    /\ connected = FALSE
    /\ subscriptions = <<>>
    /\ appending = <<>>
    /\ routines = EmptyMap
    /\ registered = {}
    /\ resent = [params |-> <<>>, session |-> 0, known |-> {}, clean |-> TRUE]
    /\ subscribeCalls = 0
    /\ sessions = EmptyMap
    /\ reconnect = TRUE
    /\ closeChan = "open"
    /\ panicked = FALSE
    /\ attempts = [failures |-> 0, after |-> 0, wait |-> 0]
    /\ dispatched = 0
    /\ handler = FALSE
    /\ inbound = Nil
    /\ emitted = Nil
    /\ clock = 0
    /\ lastPong = 0
    /\ keeper = Nil

-----------------------------------------------------------------------------
(* Initial state of the hub: NewHub, NewSubscriptionManager, no session yet *)

HubInit ==
    /\ channelSubscribers = EmptyMap
    /\ clientSubscriptions = EmptyMap
    /\ clients = {}
    /\ register = <<>>
    /\ unregister = <<>>
    /\ broadcast = <<>>
    /\ stopChan = "open"
    /\ hubpc = "select"
    /\ bcMsg = NoMsg
    /\ bcTodo = {}
    /\ send = [c \in Clients |-> <<>>]
    /\ closed = [c \in Clients |-> FALSE]
    /\ readerpc = [c \in Clients |-> "none"]
    /\ resp = [c \in Clients |-> ""]
    /\ writerpc = [c \in Clients |-> "none"]
    /\ crashed = FALSE
    /\ mark = [c \in Clients |-> "none"]
    /\ written = [c \in Clients |-> <<>>]
    /\ queued = [c \in Clients |-> <<>>]
    /\ batch = [c \in Clients |-> 0]

-----------------------------------------------------------------------------
(* SpecSubs: the SubscriptionManager alone, its three mutators called in    *)
(* any order with any arguments.                                            *)

SetSM(sm) ==
    /\ channelSubscribers' = sm.channelSubscribers
    /\ clientSubscriptions' = sm.clientSubscriptions

hubRest == <<clients, register, unregister, broadcast, stopChan, hubpc, bcMsg, bcTodo,
             send, closed, readerpc, resp, writerpc, crashed, mark>>

SubsSubscribe(c, ch) ==
    /\ SetSM(Subscribe(CurSM, c, ch))
    /\ lastOp' = "Subscribe"
    /\ UNCHANGED <<hubRest, notHub>>

SubsUnsubscribe(c, ch) ==
    /\ SetSM(Unsubscribe(CurSM, c, ch))
    /\ lastOp' = "Unsubscribe"
    /\ UNCHANGED <<hubRest, notHub>>

SubsUnsubscribeAll(c) ==
    /\ SetSM(UnsubscribeAll(CurSM, c))
    /\ lastOp' = "UnsubscribeAll"
    /\ UNCHANGED <<hubRest, notHub>>

SubsInit == HubInit /\ MergerIdle /\ PipeIdle /\ ProcIdle /\ AdapterIdle /\ lastOp = "init"

SubsNext ==
    \/ \E c \in Clients, ch \in Channels : SubsSubscribe(c, ch)
    \/ \E c \in Clients, ch \in Channels : SubsUnsubscribe(c, ch)
    \/ \E c \in Clients : SubsUnsubscribeAll(c)

SpecSubs == SubsInit /\ [][SubsNext]_vars

\* C6: client c is in the subscriber set of channel ch exactly when ch is in c's
\* channel set, and neither map holds a key whose set is empty.
C6_BidirectionalConsistency ==
    /\ \A c \in Clients, ch \in Channels :
          (ch \in DOMAIN channelSubscribers /\ c \in channelSubscribers[ch])
          <=> (c \in DOMAIN clientSubscriptions /\ ch \in clientSubscriptions[c])
    /\ \A ch \in DOMAIN channelSubscribers : channelSubscribers[ch] # {}
    /\ \A c \in DOMAIN clientSubscriptions : clientSubscriptions[c] # {}

\* an Unsubscribe has just removed the last subscriber of a channel (its key is gone)
\* while the same client keeps another channel that a second client shares
C6_Witness ==
    /\ lastOp = "Unsubscribe"
    /\ "ticker:BTCUSDT" \notin DOMAIN channelSubscribers
    /\ "depth:BTCUSDT" \in DOMAIN channelSubscribers
    /\ channelSubscribers["depth:BTCUSDT"] = {1, 2}
    /\ DOMAIN clientSubscriptions = {1, 2}

-----------------------------------------------------------------------------
(* The hub: Handler.ServeHTTP, Client.readPump/writePump, Hub.Run.          *)
(* Control frames carry a type; a market update is {channel, data} with no *)
(* type field, written here with the type "data".                          *)

Frame(type, channel, data) == [type |-> type, channel |-> channel, data |-> data]

Control(type) == Frame(type, "", "")

\* `select { case ch <- v: default: }` on an open channel of capacity SendCap
TryEnqueue(q, frame) == IF Len(q) < SendCap THEN Append(q, frame) ELSE q

HasRoom(q) == Len(q) < SendCap

InIndex(c) == \E ch \in DOMAIN channelSubscribers : c \in channelSubscribers[ch]

\* Handler.ServeHTTP: NewClient, hub.Register (blocks while h.register is full),
\* the welcome frame, client.Start
ServeHTTP(c) ==
    /\ ~crashed
    /\ readerpc[c] = "none"
    /\ Len(register) < RegisterCap
    /\ register' = Append(register, c)
    /\ send' = [send EXCEPT ![c] = TryEnqueue(send[c], Control("welcome"))]
    /\ readerpc' = [readerpc EXCEPT ![c] = "run"]
    /\ writerpc' = [writerpc EXCEPT ![c] = "run"]
    /\ UNCHANGED <<lastOp, notHub>>
    /\ UNCHANGED <<channelSubscribers, clientSubscriptions, clients, unregister, broadcast,
                   stopChan, hubpc, bcMsg, bcTodo, closed, resp, crashed, mark>>

\* Client.sendResponse / sendError: a send on a closed channel panics
TrySend(c, type) ==
    IF closed[c]
    THEN crashed' = TRUE /\ send' = send
    ELSE crashed' = crashed /\ send' = [send EXCEPT ![c] = TryEnqueue(send[c], Control(type))]

\* Client.handleSubscribe up to hub.Subscribe
ReaderSubscribe(c, ch) ==
    /\ ~crashed
    /\ readerpc[c] = "run"
    /\ SetSM(Subscribe(CurSM, c, ch))
    /\ readerpc' = [readerpc EXCEPT ![c] = "respond"]
    /\ resp' = [resp EXCEPT ![c] = "subscribed"]
    /\ UNCHANGED <<lastOp, notHub>>
    /\ UNCHANGED <<clients, register, unregister, broadcast, stopChan, hubpc, bcMsg, bcTodo,
                   send, closed, writerpc, crashed, mark>>

\* Client.handleUnsubscribe up to hub.Unsubscribe
ReaderUnsubscribe(c, ch) ==
    /\ ~crashed
    /\ readerpc[c] = "run"
    /\ SetSM(Unsubscribe(CurSM, c, ch))
    /\ readerpc' = [readerpc EXCEPT ![c] = "respond"]
    /\ resp' = [resp EXCEPT ![c] = "unsubscribed"]
    /\ UNCHANGED <<lastOp, notHub>>
    /\ UNCHANGED <<clients, register, unregister, broadcast, stopChan, hubpc, bcMsg, bcTodo,
                   send, closed, writerpc, crashed, mark>>

\* the sendResponse that ends handleSubscribe / handleUnsubscribe
ReaderRespond(c) ==
    /\ ~crashed
    /\ readerpc[c] = "respond"
    /\ TrySend(c, resp[c])
    /\ readerpc' = [readerpc EXCEPT ![c] = "run"]
    /\ resp' = [resp EXCEPT ![c] = ""]
    /\ UNCHANGED <<lastOp, notHub>>
    /\ UNCHANGED <<channelSubscribers, clientSubscriptions, clients, register, unregister,
                   broadcast, stopChan, hubpc, bcMsg, bcTodo, closed, writerpc, mark>>

\* Client.handlePing ("pong") and the error replies of handleMessage ("error")
ReaderReply(c, type) ==
    /\ ~crashed
    /\ readerpc[c] = "run"
    /\ TrySend(c, type)
    /\ UNCHANGED <<lastOp, notHub>>
    /\ UNCHANGED <<channelSubscribers, clientSubscriptions, clients, register, unregister,
                   broadcast, stopChan, hubpc, bcMsg, bcTodo, closed, readerpc, resp,
                   writerpc, mark>>

\* ReadMessage fails (the peer went away, the deadline passed, or writePump closed conn)
ReaderReadError(c) ==
    /\ ~crashed
    /\ readerpc[c] = "run"
    /\ readerpc' = [readerpc EXCEPT ![c] = "exit"]
    /\ UNCHANGED <<lastOp, notHub>>
    /\ UNCHANGED <<channelSubscribers, clientSubscriptions, clients, register, unregister,
                   broadcast, stopChan, hubpc, bcMsg, bcTodo, send, closed, resp, writerpc,
                   crashed, mark>>

\* the deferred hub.Unregister of readPump: blocks while h.unregister is full
ReaderUnregister(c) ==
    /\ ~crashed
    /\ readerpc[c] = "exit"
    /\ Len(unregister) < UnregisterCap
    /\ unregister' = Append(unregister, c)
    /\ readerpc' = [readerpc EXCEPT ![c] = "done"]
    /\ UNCHANGED <<lastOp, notHub>>
    /\ UNCHANGED <<channelSubscribers, clientSubscriptions, clients, register, broadcast,
                   stopChan, hubpc, bcMsg, bcTodo, send, closed, resp, writerpc, crashed,
                   mark>>

\* writePump: one receive from client.send plus the batch of len(c.send) further frames
WriterWrite(c) ==
    /\ ~crashed
    /\ writerpc[c] = "run"
    /\ send[c] # <<>>
    /\ send' = [send EXCEPT ![c] = <<>>]
    /\ UNCHANGED <<lastOp, notHub>>
    /\ UNCHANGED <<channelSubscribers, clientSubscriptions, clients, register, unregister,
                   broadcast, stopChan, hubpc, bcMsg, bcTodo, closed, readerpc, resp,
                   writerpc, crashed, mark>>

\* writePump: the receive reports the channel closed and drained; close frame, return
WriterClose(c) ==
    /\ ~crashed
    /\ writerpc[c] = "run"
    /\ send[c] = <<>>
    /\ closed[c]
    /\ writerpc' = [writerpc EXCEPT ![c] = "done"]
    /\ UNCHANGED <<lastOp, notHub>>
    /\ UNCHANGED <<channelSubscribers, clientSubscriptions, clients, register, unregister,
                   broadcast, stopChan, hubpc, bcMsg, bcTodo, send, closed, readerpc, resp,
                   crashed, mark>>

\* Broadcaster.handleRedisMessage -> Hub.Broadcast: blocks while h.broadcast is full
BridgePublish(ch, d) ==
    /\ ~crashed
    /\ Len(broadcast) < BroadcastCap
    /\ broadcast' = Append(broadcast, [channel |-> ch, data |-> d])
    /\ UNCHANGED <<lastOp, notHub>>
    /\ UNCHANGED <<channelSubscribers, clientSubscriptions, clients, register, unregister,
                   stopChan, hubpc, bcMsg, bcTodo, send, closed, readerpc, resp, writerpc,
                   crashed, mark>>

\* Hub.Stop, called once by the server's shutdown
Stop ==
    /\ ~crashed
    /\ stopChan = "open"
    /\ stopChan' = "closed"
    /\ UNCHANGED <<lastOp, notHub>>
    /\ UNCHANGED <<channelSubscribers, clientSubscriptions, clients, register, unregister,
                   broadcast, hubpc, bcMsg, bcTodo, send, closed, readerpc, resp, writerpc,
                   crashed, mark>>

\* Hub.Run, case client := <-h.register
HubRegister ==
    /\ ~crashed
    /\ hubpc = "select"
    /\ register # <<>>
    /\ clients' = clients \cup {Head(register)}
    /\ register' = Tail(register)
    /\ UNCHANGED <<lastOp, notHub>>
    /\ UNCHANGED <<channelSubscribers, clientSubscriptions, unregister, broadcast, stopChan,
                   hubpc, bcMsg, bcTodo, send, closed, readerpc, resp, writerpc, crashed, mark>>

\* Hub.Run, case client := <-h.unregister
HubUnregister ==
    /\ ~crashed
    /\ hubpc = "select"
    /\ unregister # <<>>
    /\ LET c == Head(unregister) IN
         IF c \in clients
         THEN /\ clients' = clients \ {c}
              /\ IF closed[c] THEN crashed' = TRUE ELSE crashed' = crashed
              /\ closed' = [closed EXCEPT ![c] = TRUE]
              /\ SetSM(UnsubscribeAll(CurSM, c))
              /\ mark' = [mark EXCEPT ![c] = "none"]
         ELSE UNCHANGED <<clients, crashed, closed, channelSubscribers,
                          clientSubscriptions, mark>>
    /\ unregister' = Tail(unregister)
    /\ UNCHANGED <<lastOp, notHub>>
    /\ UNCHANGED <<register, broadcast, stopChan, hubpc, bcMsg, bcTodo, send, readerpc,
                   resp, writerpc>>

\* the history at the moment a broadcast completes: a client found full by an earlier
\* broadcast and still in the index has missed its removal
Completed(m) ==
    [c \in Clients |-> IF m[c] = "next" THEN (IF InIndex(c) THEN "missed" ELSE "none")
                       ELSE m[c]]

\* the history at the moment a broadcast begins
Begun(m) == [c \in Clients |-> IF m[c] = "full" THEN "next" ELSE m[c]]

\* Hub.Run, case message := <-h.broadcast, and broadcastToChannel up to its loop
HubBroadcastBegin ==
    /\ ~crashed
    /\ hubpc = "select"
    /\ broadcast # <<>>
    /\ LET message == Head(broadcast)
           subscribers == GetSubscribers(CurSM, message.channel)
       IN IF subscribers = {}
          THEN /\ UNCHANGED <<bcMsg, bcTodo, hubpc>>
               /\ mark' = Completed(Begun(mark))
          ELSE /\ bcMsg' = message
               /\ bcTodo' = subscribers
               /\ hubpc' = "bcast"
               /\ mark' = Begun(mark)
    /\ broadcast' = Tail(broadcast)
    /\ UNCHANGED <<lastOp, notHub>>
    /\ UNCHANGED <<channelSubscribers, clientSubscriptions, clients, register, unregister,
                   stopChan, send, closed, readerpc, resp, writerpc, crashed>>

\* one iteration of the loop of broadcastToChannel, for one client of the copy
HubBroadcastStep(c) ==
    /\ ~crashed
    /\ hubpc = "bcast"
    /\ c \in bcTodo
    /\ LET jsonMessage == Frame("data", bcMsg.channel, bcMsg.data)
           rest == bcTodo \ {c}
       IN
       IF closed[c]
       THEN \* send on a closed channel
            /\ crashed' = TRUE
            /\ UNCHANGED <<send, unregister, hubpc, bcMsg, bcTodo, mark>>
       ELSE IF HasRoom(send[c])
       THEN /\ send' = [send EXCEPT ![c] = TryEnqueue(send[c], jsonMessage)]
            /\ bcTodo' = rest
            /\ hubpc' = IF rest = {} THEN "select" ELSE "bcast"
            /\ bcMsg' = IF rest = {} THEN NoMsg ELSE bcMsg
            /\ mark' = IF rest = {} THEN Completed(mark) ELSE mark
            /\ UNCHANGED <<unregister, crashed>>
       ELSE IF Len(unregister) < UnregisterCap
       THEN \* default: h.unregister <- client
            /\ unregister' = Append(unregister, c)
            /\ bcTodo' = rest
            /\ hubpc' = IF rest = {} THEN "select" ELSE "bcast"
            /\ bcMsg' = IF rest = {} THEN NoMsg ELSE bcMsg
            /\ LET m == [mark EXCEPT ![c] = IF mark[c] = "none" THEN "full" ELSE mark[c]]
               IN mark' = IF rest = {} THEN Completed(m) ELSE m
            /\ UNCHANGED <<send, crashed>>
       ELSE \* h.unregister is full and only this loop receives from it
            /\ hubpc' = "blocked"
            /\ UNCHANGED <<send, unregister, crashed, bcMsg, bcTodo, mark>>
    /\ UNCHANGED <<lastOp, notHub>>
    /\ UNCHANGED <<channelSubscribers, clientSubscriptions, clients, register, broadcast,
                   stopChan, closed, readerpc, resp, writerpc>>

\* closeAllClients: close(client.send) and UnsubscribeAll for every registered client
RECURSIVE UnsubscribeAllOf(_, _)
UnsubscribeAllOf(sm, cs) ==
    IF cs = {} THEN sm
    ELSE LET c == CHOOSE x \in cs : TRUE
         IN UnsubscribeAllOf(UnsubscribeAll(sm, c), cs \ {c})

\* Hub.Run, case <-h.stopChan
HubStop ==
    /\ ~crashed
    /\ hubpc = "select"
    /\ stopChan = "closed"
    /\ IF \E c \in clients : closed[c] THEN crashed' = TRUE ELSE crashed' = crashed
    /\ closed' = [c \in Clients |-> closed[c] \/ c \in clients]
    /\ SetSM(UnsubscribeAllOf(CurSM, clients))
    /\ mark' = [c \in Clients |-> IF c \in clients THEN "none" ELSE mark[c]]
    /\ clients' = {}
    /\ hubpc' = "stopped"
    /\ UNCHANGED <<lastOp, notHub>>
    /\ UNCHANGED <<register, unregister, broadcast, stopChan, bcMsg, bcTodo, send, readerpc,
                   resp, writerpc>>

HubSpecInit == HubInit /\ MergerIdle /\ PipeIdle /\ ProcIdle /\ AdapterIdle /\ lastOp = "init"

HubNext ==
    \/ \E c \in Clients : ServeHTTP(c)
    \/ \E c \in Clients, ch \in AskedChannels : ReaderSubscribe(c, ch)
    \/ \E c \in Talkative, ch \in AskedChannels : ReaderUnsubscribe(c, ch)
    \/ \E c \in Clients : ReaderRespond(c)
    \/ \E c \in Talkative, type \in {"pong", "error"} : ReaderReply(c, type)
    \/ \E c \in Talkative : ReaderReadError(c)
    \/ \E c \in Clients : ReaderUnregister(c)
    \/ \E c \in Clients : WriterWrite(c)
    \/ \E c \in Clients : WriterClose(c)
    \/ \E ch \in HubChannels, d \in DataIds : BridgePublish(ch, d)
    \/ Stop
    \/ HubRegister
    \/ HubUnregister
    \/ HubBroadcastBegin
    \/ \E c \in Clients : HubBroadcastStep(c)
    \/ HubStop

SpecHub == HubSpecInit /\ [][HubNext]_vars

\* the frame broadcastToChannel builds from the message it is working on
DataFrame == Frame("data", bcMsg.channel, bcMsg.data)

\* C1: for every message the hub loop processes on channel X, the {channel, data}
\* frame is enqueued to every client that is in X's subscriber set when the loop reads
\* the message and whose queue has room, and to no client that is not subscribed to X.
\* Step by step: the clients the loop sets out to visit are exactly X's subscribers at
\* the read; the loop goes back to its select only when it has visited all of them; a
\* visit of a client whose queue has room appends the frame to that queue; and a
\* market-update frame enters a queue only by such a visit.
C1_RoutedToSubscribers ==
    [][/\ (hubpc = "select" /\ hubpc' = "bcast")
            => /\ bcMsg' = Head(broadcast)
               /\ bcTodo' = {c \in Clients :
                                \E ch \in DOMAIN channelSubscribers :
                                    ch = Head(broadcast).channel /\ c \in channelSubscribers[ch]}
       /\ hubpc = "bcast"
            => /\ bcTodo' \subseteq bcTodo
               /\ hubpc' = "select" => bcTodo' = {}
               /\ \A c \in bcTodo \ bcTodo' :
                     Len(send[c]) < SendCap => send'[c] = Append(send[c], DataFrame)
       /\ \A c \in Clients :
             (Len(send'[c]) > Len(send[c]) /\ send'[c][Len(send'[c])].type = "data")
                => /\ hubpc = "bcast"
                   /\ c \in bcTodo
                   /\ send'[c] = Append(send[c], DataFrame)]_vars

\* both sessions subscribe to the ticker channel; the loop working on a ticker message
\* has enqueued the frame to session 1 and has session 2, whose queue is full, left
C1_Witness ==
    /\ hubpc = "bcast"
    /\ bcMsg.channel = "ticker:BTCUSDT"
    /\ "ticker:BTCUSDT" \in DOMAIN channelSubscribers
    /\ channelSubscribers["ticker:BTCUSDT"] = {1, 2}
    /\ bcTodo = {2}
    /\ send[1] = <<DataFrame>>
    /\ Len(send[2]) = SendCap

\* C3: a client a broadcast found full is out of the subscription index by the time
\* the hub has finished processing the next broadcast message.
C3_RemovedBeforeNextBroadcast == \A c \in Clients : mark[c] # "missed"

\* C4: the hub loop never blocks while it processes a broadcast.
C4_BroadcastNeverBlocks == hubpc # "blocked"

\* C5: a session the hub has destroyed (its send queue closed by the unregister case
\* or by closeAllClients) is in no channel's subscriber set in any later state.
C5_DestroyedStaysOut == \A c \in Clients : closed[c] => ~InIndex(c)

-----------------------------------------------------------------------------
(* The fusion engine: DataMerger (merger.go).                               *)

\* constants.go
SourceInternal == "internal"

SourceExternal == "external"

SourceMerged == "merged"

ModeInternalOnly == "INTERNAL_ONLY"

ModeExternalOnly == "EXTERNAL_ONLY"

ModeHybrid == "HYBRID"

MergeStrategyPriority == "priority"

MergeStrategySupplement == "supplement"

MergeStrategyOverride == "override"

DataTypeTicker == "ticker"

DataTypeDepth == "depth"

DataTypeTrade == "trade"

DataTypeKline == "kline"

\* 5 * Second, in milliseconds
DataFreshnessThreshold == 5000

\* cache.Trades keeps the most recent trades (100 in the code), scaled down
MaxCachedTrades == 1

\* mergeDepthPriority cuts each side of the merged book to this many levels
\* (100 in the code), scaled down
MergedDepthLimit == 3

\* mergeDepthSupplement adds external levels to a side with fewer levels than this
\* (20 in the code), scaled down
SupplementBelow == 2

\* MarketData.Data is an interface{}: a value knows its dynamic type, here the
\* type name and whether it is a pointer to it or the struct itself
Ptr(kind, v) == [form |-> "ptr", kind |-> kind, v |-> v]

Val(kind, v) == [form |-> "val", kind |-> kind, v |-> v]

\* the type assertion data.Data.(*models.T)
IsPtrTo(d, kind) == d.form = "ptr" /\ d.kind = kind

MarketData(exchange, symbol, type, source, timestamp, data) ==
    [Exchange |-> exchange, Symbol |-> symbol, Type |-> type, Source |-> source,
     Timestamp |-> timestamp, Data |-> data]

\* &CachedData{}
ZeroCache == [Ticker |-> Nil, Depth |-> Nil, Trades |-> <<>>, Timestamp |-> 0]

\* m[symbol] of a map to pointers: nil when the key is absent
Lookup(m, k) == IF k \in DOMAIN m THEN m[k] ELSE Nil

Take(seq, n) == IF Len(seq) > n THEN SubSeq(seq, 1, n) ELSE seq

\* a plausible bug: freshness compared with <= instead of <
isDataFreshInclusive(timestamp, t) == (t - timestamp) <= DataFreshnessThreshold

isDataFresh(timestamp, t) == (t - timestamp) < DataFreshnessThreshold

\* the merger as a value: the three maps of DataMerger
Merger(cfg, int, ext) == [symbolConfigs |-> cfg, internalData |-> int, externalData |-> ext]

cacheData(m, data, t) ==
    LET symbol == data.Symbol
        isInternal == data.Source = SourceInternal
        tbl == IF isInternal THEN m.internalData ELSE m.externalData
        cache0 == IF Lookup(tbl, symbol) = Nil THEN ZeroCache ELSE tbl[symbol]
        cache1 ==
            IF data.Type = DataTypeTicker /\ IsPtrTo(data.Data, "Ticker")
            THEN [cache0 EXCEPT !.Ticker = data.Data.v]
            ELSE IF data.Type = DataTypeDepth /\ IsPtrTo(data.Data, "OrderBook")
            THEN [cache0 EXCEPT !.Depth = data.Data.v]
            ELSE IF data.Type = DataTypeTrade /\ IsPtrTo(data.Data, "Trade")
            THEN [cache0 EXCEPT !.Trades = Take(<<data.Data.v>> \o cache0.Trades, MaxCachedTrades)]
            ELSE cache0
        cache2 == [cache1 EXCEPT !.Timestamp = t]
    IN IF isInternal
       THEN [m EXCEPT !.internalData = MapPut(tbl, symbol, cache2)]
       ELSE [m EXCEPT !.externalData = MapPut(tbl, symbol, cache2)]

\* &models.TickerWithSource{Symbol: symbol}
ZeroTickerWithSource(symbol) ==
    [Symbol |-> symbol, LastPrice |-> 0, LastPriceSource |-> "", BidPrice |-> 0,
     AskPrice |-> 0, High24h |-> 0, Low24h |-> 0, InternalVolume24h |-> 0,
     ExternalVolume24h |-> 0, TotalVolume24h |-> 0, Timestamp |-> 0]

HasTicker(cache) == cache # Nil /\ cache.Ticker # Nil

\* a plausible bug: the external side is tried first
mergeTickerExternalFirst(internal, external, symbol, t) ==
    LET z == ZeroTickerWithSource(symbol)
        picked ==
            IF HasTicker(external) /\ isDataFresh(external.Timestamp, t)
            THEN [z EXCEPT !.LastPrice = external.Ticker.LastPrice,
                           !.LastPriceSource = SourceExternal,
                           !.BidPrice = external.Ticker.BidPrice,
                           !.AskPrice = external.Ticker.AskPrice,
                           !.High24h = external.Ticker.High24h,
                           !.Low24h = external.Ticker.Low24h,
                           !.Timestamp = external.Ticker.Timestamp]
            ELSE IF HasTicker(internal) /\ isDataFresh(internal.Timestamp, t)
            THEN [z EXCEPT !.LastPrice = internal.Ticker.LastPrice,
                           !.LastPriceSource = SourceInternal,
                           !.BidPrice = internal.Ticker.BidPrice,
                           !.AskPrice = internal.Ticker.AskPrice,
                           !.High24h = internal.Ticker.High24h,
                           !.Low24h = internal.Ticker.Low24h,
                           !.Timestamp = internal.Ticker.Timestamp]
            ELSE Nil
    IN IF picked = Nil THEN Nil
       ELSE LET iv == IF HasTicker(internal) THEN internal.Ticker.Volume24h ELSE 0
                ev == IF HasTicker(external) THEN external.Ticker.Volume24h ELSE 0
            IN [picked EXCEPT !.InternalVolume24h = iv, !.ExternalVolume24h = ev,
                              !.TotalVolume24h = iv + ev]

\* a plausible bug: only the chosen side contributes its volume
mergeTickerChosenVolume(internal, external, symbol, t) ==
    LET z == ZeroTickerWithSource(symbol)
    IN IF HasTicker(internal) /\ isDataFresh(internal.Timestamp, t)
       THEN [z EXCEPT !.LastPrice = internal.Ticker.LastPrice,
                      !.LastPriceSource = SourceInternal,
                      !.BidPrice = internal.Ticker.BidPrice,
                      !.AskPrice = internal.Ticker.AskPrice,
                      !.High24h = internal.Ticker.High24h,
                      !.Low24h = internal.Ticker.Low24h,
                      !.InternalVolume24h = internal.Ticker.Volume24h,
                      !.TotalVolume24h = internal.Ticker.Volume24h,
                      !.Timestamp = internal.Ticker.Timestamp]
       ELSE IF HasTicker(external) /\ isDataFresh(external.Timestamp, t)
       THEN [z EXCEPT !.LastPrice = external.Ticker.LastPrice,
                      !.LastPriceSource = SourceExternal,
                      !.BidPrice = external.Ticker.BidPrice,
                      !.AskPrice = external.Ticker.AskPrice,
                      !.High24h = external.Ticker.High24h,
                      !.Low24h = external.Ticker.Low24h,
                      !.ExternalVolume24h = external.Ticker.Volume24h,
                      !.TotalVolume24h = external.Ticker.Volume24h,
                      !.Timestamp = external.Ticker.Timestamp]
       ELSE Nil

mergeTickerPriority(internal, external, symbol, t) ==
    LET z == ZeroTickerWithSource(symbol)
        picked ==
            IF HasTicker(internal) /\ isDataFresh(internal.Timestamp, t)
            THEN [z EXCEPT !.LastPrice = internal.Ticker.LastPrice,
                           !.LastPriceSource = SourceInternal,
                           !.BidPrice = internal.Ticker.BidPrice,
                           !.AskPrice = internal.Ticker.AskPrice,
                           !.High24h = internal.Ticker.High24h,
                           !.Low24h = internal.Ticker.Low24h,
                           !.InternalVolume24h = internal.Ticker.Volume24h,
                           !.Timestamp = internal.Ticker.Timestamp]
            ELSE IF HasTicker(external) /\ isDataFresh(external.Timestamp, t)
            THEN [z EXCEPT !.LastPrice = external.Ticker.LastPrice,
                           !.LastPriceSource = SourceExternal,
                           !.BidPrice = external.Ticker.BidPrice,
                           !.AskPrice = external.Ticker.AskPrice,
                           !.High24h = external.Ticker.High24h,
                           !.Low24h = external.Ticker.Low24h,
                           !.ExternalVolume24h = external.Ticker.Volume24h,
                           !.Timestamp = external.Ticker.Timestamp]
            ELSE Nil
    IN IF picked = Nil THEN Nil
       ELSE LET withInt == IF HasTicker(internal)
                           THEN [picked EXCEPT !.InternalVolume24h = internal.Ticker.Volume24h]
                           ELSE picked
                withExt == IF HasTicker(external)
                           THEN [withInt EXCEPT !.ExternalVolume24h = external.Ticker.Volume24h]
                           ELSE withInt
            IN [withExt EXCEPT !.TotalVolume24h =
                                   withExt.InternalVolume24h + withExt.ExternalVolume24h]

mergeTickerSupplement(internal, external, symbol, t) ==
    mergeTickerPriority(internal, external, symbol, t)

mergeTicker(m, symbol, config, t) ==
    LET internalCache == Lookup(m.internalData, symbol)
        externalCache == Lookup(m.externalData, symbol)
        mergedTicker ==
            IF config.MergeStrategy = MergeStrategyPriority
            THEN mergeTickerPriority(internalCache, externalCache, symbol, t)
            ELSE IF config.MergeStrategy = MergeStrategySupplement
            THEN mergeTickerSupplement(internalCache, externalCache, symbol, t)
            ELSE mergeTickerPriority(internalCache, externalCache, symbol, t)
    IN IF mergedTicker = Nil THEN Nil
       ELSE MarketData("merged", symbol, DataTypeTicker, SourceMerged, t,
                       Ptr("TickerWithSource", mergedTicker))

\* models.PriceLevelWithSource
Tagged(levels, source) ==
    [i \in 1..Len(levels) |->
        [Price |-> levels[i].Price, Amount |-> levels[i].Amount, Source |-> source]]

\* sort.Slice with less(a, b) leaves open the order of levels neither of which is
\* less than the other: sorting by insertion keeps their order, and sorting the
\* reversed slice by insertion turns it round
TieOrders == {"kept", "reversed"}

Reverse(s) == [i \in 1..Len(s) |-> s[Len(s) + 1 - i]]

RECURSIVE InsertLevel(_, _, _)
InsertLevel(sorted, x, desc) ==
    IF sorted = <<>> THEN <<x>>
    ELSE IF (IF desc THEN x.Price > Head(sorted).Price ELSE x.Price < Head(sorted).Price)
         THEN <<x>> \o sorted
         ELSE <<Head(sorted)>> \o InsertLevel(Tail(sorted), x, desc)

RECURSIVE InsertionSort(_, _)
InsertionSort(levels, desc) ==
    IF levels = <<>> THEN <<>>
    ELSE InsertLevel(InsertionSort(SubSeq(levels, 1, Len(levels) - 1), desc),
                     levels[Len(levels)], desc)

SortLevels(levels, desc, tie) ==
    InsertionSort(IF tie = "reversed" THEN Reverse(levels) ELSE levels, desc)

HasDepth(cache) == cache # Nil /\ cache.Depth # Nil

\* a plausible bug: each side is cut to the limit before it is sorted
mergeDepthPriorityCutFirst(internal, external, symbol, t, tie) ==
    LET intFresh == HasDepth(internal) /\ isDataFresh(internal.Timestamp, t)
        extFresh == HasDepth(external) /\ isDataFresh(external.Timestamp, t)
        intBids == IF intFresh THEN Tagged(internal.Depth.Bids, SourceInternal) ELSE <<>>
        intAsks == IF intFresh THEN Tagged(internal.Depth.Asks, SourceInternal) ELSE <<>>
        extBids == IF extFresh THEN Tagged(external.Depth.Bids, SourceExternal) ELSE <<>>
        extAsks == IF extFresh THEN Tagged(external.Depth.Asks, SourceExternal) ELSE <<>>
    IN [Symbol |-> symbol,
        Bids |-> SortLevels(Take(intBids \o extBids, MergedDepthLimit), TRUE, tie),
        Asks |-> SortLevels(Take(intAsks \o extAsks, MergedDepthLimit), FALSE, tie),
        InternalBidsCount |-> Len(intBids),
        ExternalBidsCount |-> Len(extBids),
        InternalAsksCount |-> Len(intAsks),
        ExternalAsksCount |-> Len(extAsks),
        Timestamp |-> t]

mergeDepthPriority(internal, external, symbol, t, tie) ==
    LET intFresh == HasDepth(internal) /\ isDataFresh(internal.Timestamp, t)
        extFresh == HasDepth(external) /\ isDataFresh(external.Timestamp, t)
        intBids == IF intFresh THEN Tagged(internal.Depth.Bids, SourceInternal) ELSE <<>>
        intAsks == IF intFresh THEN Tagged(internal.Depth.Asks, SourceInternal) ELSE <<>>
        extBids == IF extFresh THEN Tagged(external.Depth.Bids, SourceExternal) ELSE <<>>
        extAsks == IF extFresh THEN Tagged(external.Depth.Asks, SourceExternal) ELSE <<>>
    IN [Symbol |-> symbol,
        Bids |-> Take(SortLevels(intBids \o extBids, TRUE, tie), MergedDepthLimit),
        Asks |-> Take(SortLevels(intAsks \o extAsks, FALSE, tie), MergedDepthLimit),
        InternalBidsCount |-> Len(intBids),
        ExternalBidsCount |-> Len(extBids),
        InternalAsksCount |-> Len(intAsks),
        ExternalAsksCount |-> Len(extAsks),
        Timestamp |-> t]

\* a plausible bug: the length of the bid side decides for the asks as well
mergeDepthSupplementOneTest(internal, external, symbol, t, tie) ==
    LET intFresh == HasDepth(internal) /\ isDataFresh(internal.Timestamp, t)
        extFresh == HasDepth(external) /\ isDataFresh(external.Timestamp, t)
        intBids == IF intFresh THEN Tagged(internal.Depth.Bids, SourceInternal) ELSE <<>>
        intAsks == IF intFresh THEN Tagged(internal.Depth.Asks, SourceInternal) ELSE <<>>
        addBids == Len(intBids) < SupplementBelow /\ extFresh
        extBids == IF addBids THEN Tagged(external.Depth.Bids, SourceExternal) ELSE <<>>
        extAsks == IF addBids THEN Tagged(external.Depth.Asks, SourceExternal) ELSE <<>>
    IN [Symbol |-> symbol,
        Bids |-> SortLevels(intBids \o extBids, TRUE, tie),
        Asks |-> SortLevels(intAsks \o extAsks, FALSE, tie),
        InternalBidsCount |-> Len(intBids),
        ExternalBidsCount |-> Len(extBids),
        InternalAsksCount |-> Len(intAsks),
        ExternalAsksCount |-> Len(extAsks),
        Timestamp |-> t]

mergeDepthSupplement(internal, external, symbol, t, tie) ==
    LET intFresh == HasDepth(internal) /\ isDataFresh(internal.Timestamp, t)
        extFresh == HasDepth(external) /\ isDataFresh(external.Timestamp, t)
        intBids == IF intFresh THEN Tagged(internal.Depth.Bids, SourceInternal) ELSE <<>>
        intAsks == IF intFresh THEN Tagged(internal.Depth.Asks, SourceInternal) ELSE <<>>
        addBids == Len(intBids) < SupplementBelow /\ extFresh
        addAsks == Len(intAsks) < SupplementBelow /\ extFresh
        extBids == IF addBids THEN Tagged(external.Depth.Bids, SourceExternal) ELSE <<>>
        extAsks == IF addAsks THEN Tagged(external.Depth.Asks, SourceExternal) ELSE <<>>
    IN [Symbol |-> symbol,
        Bids |-> SortLevels(intBids \o extBids, TRUE, tie),
        Asks |-> SortLevels(intAsks \o extAsks, FALSE, tie),
        InternalBidsCount |-> Len(intBids),
        ExternalBidsCount |-> Len(extBids),
        InternalAsksCount |-> Len(intAsks),
        ExternalAsksCount |-> Len(extAsks),
        Timestamp |-> t]

mergeDepth(m, symbol, config, t, tie) ==
    LET internalCache == Lookup(m.internalData, symbol)
        externalCache == Lookup(m.externalData, symbol)
        mergedDepth ==
            IF config.MergeStrategy = MergeStrategyPriority
            THEN mergeDepthPriority(internalCache, externalCache, symbol, t, tie)
            ELSE IF config.MergeStrategy = MergeStrategySupplement
            THEN mergeDepthSupplement(internalCache, externalCache, symbol, t, tie)
            ELSE mergeDepthPriority(internalCache, externalCache, symbol, t, tie)
    IN MarketData("merged", symbol, DataTypeDepth, SourceMerged, t,
                  Ptr("OrderBookWithSource", mergedDepth))

\* the result of a call: the value returned and the merger it leaves behind
Result(value, m) == [ret |-> value, merger |-> m]

mergeData(m, data, config, t, tie) ==
    LET m1 == cacheData(m, data, t)
    IN IF data.Type = DataTypeTicker THEN Result(mergeTicker(m1, data.Symbol, config, t), m1)
       ELSE IF data.Type = DataTypeDepth THEN Result(mergeDepth(m1, data.Symbol, config, t, tie), m1)
       ELSE Result(data, m1)

\* a plausible bug: the single-source modes cache the record before they filter it
ProcessDataCachingFirst(m, data, t, tie) ==
    LET config == Lookup(m.symbolConfigs, data.Symbol)
        m1 == cacheData(m, data, t)
    IN IF config = Nil THEN Result(data, m)
       ELSE IF config.Mode = ModeInternalOnly
       THEN Result(IF data.Source = SourceInternal THEN data ELSE Nil, m1)
       ELSE IF config.Mode = ModeExternalOnly
       THEN Result(IF data.Source = SourceExternal THEN data ELSE Nil, m1)
       ELSE IF config.Mode = ModeHybrid THEN mergeData(m, data, config, t, tie)
       ELSE Result(data, m)

ProcessData(m, data, t, tie) ==
    LET config == Lookup(m.symbolConfigs, data.Symbol)
    IN IF config = Nil THEN Result(data, m)
       ELSE IF config.Mode = ModeInternalOnly
       THEN Result(IF data.Source = SourceInternal THEN data ELSE Nil, m)
       ELSE IF config.Mode = ModeExternalOnly
       THEN Result(IF data.Source = SourceExternal THEN data ELSE Nil, m)
       ELSE IF config.Mode = ModeHybrid THEN mergeData(m, data, config, t, tie)
       ELSE Result(data, m)

-----------------------------------------------------------------------------
(* SpecMerger: a DataMerger built by NewDataMerger from four symbol configs, *)
(* fed records of every source and kind while time passes.                  *)

\* the clock stops here
MaxNow == 5000

\* time passes in steps of the freshness threshold
TickSteps == {DataFreshnessThreshold}

SymbolConfig(symbol, mode, strategy) ==
    [Symbol |-> symbol, Mode |-> mode, MergeStrategy |-> strategy]

\* the configs handed to NewDataMerger; the strategy of the hybrid symbol varies
Configs(strategy) ==
    [sym \in {"BTCUSDT", "XYZUSDT", "ABCUSDT"} |->
        IF sym = "BTCUSDT" THEN SymbolConfig(sym, ModeHybrid, strategy)
        ELSE IF sym = "XYZUSDT" THEN SymbolConfig(sym, ModeExternalOnly, MergeStrategyPriority)
        ELSE SymbolConfig(sym, ModeInternalOnly, MergeStrategyPriority)]

\* DOGEUSDT has no config
Symbols == {"BTCUSDT", "XYZUSDT", "ABCUSDT", "DOGEUSDT"}

\* the venue adapters leave MarketData.Source empty; the internal receiver sets it
Sources == {SourceInternal, SourceExternal, ""}

TickerOf(symbol, p) ==
    [Symbol |-> symbol, LastPrice |-> 100 * p, BidPrice |-> 100 * p - 1,
     AskPrice |-> 100 * p + 1, High24h |-> 100 * p + 10, Low24h |-> 100 * p - 10,
     Volume24h |-> 10 * p + 1, Timestamp |-> p]

Level(price, amount) == [Price |-> price, Amount |-> amount]

\* the book of a source: the internal book is the tighter one
BookOf(symbol, source) ==
    IF source = SourceInternal
    THEN [Symbol |-> symbol, Bids |-> <<Level(99, 1)>>, Asks |-> <<Level(101, 1)>>,
          Timestamp |-> 1]
    ELSE [Symbol |-> symbol, Bids |-> <<Level(98, 2), Level(97, 2)>>,
          Asks |-> <<Level(102, 2)>>, Timestamp |-> 1]

TradeOf(symbol) ==
    [Symbol |-> symbol, TradeID |-> "t1", Price |-> 100, Amount |-> 1, Side |-> "buy",
     Timestamp |-> 1]

\* the payloads adapters build: the venue adapters pass *Ticker, the internal
\* receiver's handleTicker passes a Ticker value; the book and the value form are
\* fed for the hybrid symbol only
Payloads(symbol, source) ==
    {<<DataTypeTicker, Ptr("Ticker", TickerOf(symbol, IF source = SourceInternal THEN 1 ELSE 2))>>,
     <<DataTypeTrade, Ptr("Trade", TradeOf(symbol))>>}
    \cup (IF symbol = "BTCUSDT"
          THEN {<<DataTypeDepth, Ptr("OrderBook", BookOf(symbol, source))>>}
               \cup (IF source = SourceInternal
                     THEN {<<DataTypeTicker, Val("Ticker", TickerOf(symbol, 1))>>}
                     ELSE {})
          ELSE {})

Inputs ==
    UNION {{MarketData(IF source = SourceInternal THEN "internal" ELSE "binance",
                       symbol, pl[1], source, 1, pl[2]) : pl \in Payloads(symbol, source)}
           : <<symbol, source>> \in Symbols \X Sources}

CurMerger == Merger(symbolConfigs, internalData, externalData)

MergerInit ==
    /\ HubInit
    /\ PipeIdle
    /\ ProcIdle /\ AdapterIdle
    /\ \E strategy \in {MergeStrategyPriority, MergeStrategySupplement} :
          symbolConfigs = Configs(strategy)
    /\ internalData = EmptyMap
    /\ externalData = EmptyMap
    /\ now = 0
    /\ ret = Nil
    /\ lastIn = Nil
    /\ lastOp = "init"

\* a call of DataMerger.ProcessData by an adapter sink; only a book is sorted
ProcessDataCall(data) ==
    /\ \E tie \in (IF data.Type = DataTypeDepth THEN TieOrders ELSE {"kept"}) :
       LET r == ProcessData(CurMerger, data, now, tie) IN
         /\ ret' = r.ret
         /\ internalData' = r.merger.internalData
         /\ externalData' = r.merger.externalData
         /\ symbolConfigs' = r.merger.symbolConfigs
    /\ lastIn' = data
    /\ lastOp' = "ProcessData"
    /\ UNCHANGED <<now, hubVars, pipeVars, procVars, adapterVars>>

Tick(d) ==
    /\ now + d <= MaxNow
    /\ now' = now + d
    /\ lastOp' = "Tick"
    /\ UNCHANGED <<symbolConfigs, internalData, externalData, ret, lastIn, hubVars, pipeVars, procVars, adapterVars>>

MergerNext ==
    \/ \E data \in Inputs : ProcessDataCall(data)
    \/ \E d \in TickSteps : Tick(d)

SpecMerger == MergerInit /\ [][MergerNext]_vars

ModeOf(symbol) ==
    IF symbol \in DOMAIN symbolConfigs THEN symbolConfigs[symbol].Mode ELSE "none"

\* C7: for a symbol configured internal_only ProcessData returns the input record
\* unchanged when its source is internal and nothing otherwise; for external_only it
\* returns the input unchanged when its source is external and nothing otherwise; in
\* both modes neither cache is modified.
C7_SingleSourceModes ==
    [][(lastOp' = "ProcessData"
        /\ ModeOf(lastIn'.Symbol) \in {ModeInternalOnly, ModeExternalOnly})
       => /\ internalData' = internalData
          /\ externalData' = externalData
          /\ ModeOf(lastIn'.Symbol) = ModeInternalOnly
                => ret' = (IF lastIn'.Source = "internal" THEN lastIn' ELSE Nil)
          /\ ModeOf(lastIn'.Symbol) = ModeExternalOnly
                => ret' = (IF lastIn'.Source = "external" THEN lastIn' ELSE Nil)]_vars

\* with both caches of the hybrid symbol filled, an external_only symbol has just had
\* an external record returned
C7_Witness ==
    /\ lastOp = "ProcessData"
    /\ lastIn.Symbol = "XYZUSDT"
    /\ lastIn.Source = "external"
    /\ ret = lastIn
    /\ "BTCUSDT" \in DOMAIN internalData
    /\ "BTCUSDT" \in DOMAIN externalData

-----------------------------------------------------------------------------
(* SpecMergeFn: the hybrid ticker merge as a function of the two cached     *)
(* sides of one symbol, applied to every combination of absent, empty,      *)
(* fresh and stale sides, under every merge strategy.                       *)

FnSymbol == "BTCUSDT"

\* the instant of the merge
FnNow == 2 * DataFreshnessThreshold

\* how long ago a side was last written: around the freshness threshold
Ages == {0, DataFreshnessThreshold - 1, DataFreshnessThreshold, DataFreshnessThreshold + 1}

\* the cached side of a source: no entry, or an entry with or without a ticker
SideStates(source) ==
    {EmptyMap} \cup
    {MapPut(EmptyMap, FnSymbol,
            [ZeroCache EXCEPT !.Ticker = tk, !.Timestamp = FnNow - age]) :
        tk \in {Nil, TickerOf(FnSymbol, IF source = SourceInternal THEN 1 ELSE 2)},
        age \in Ages}

MergeFnInit ==
    /\ HubInit
    /\ PipeIdle
    /\ ProcIdle /\ AdapterIdle
    /\ \E strategy \in {MergeStrategyPriority, MergeStrategySupplement, MergeStrategyOverride} :
          symbolConfigs = Configs(strategy)
    /\ internalData \in SideStates(SourceInternal)
    /\ externalData \in SideStates(SourceExternal)
    /\ now = FnNow
    /\ ret = Nil
    /\ lastIn = Nil
    /\ lastOp = "init"

\* DataMerger.mergeTicker on the cached sides, under the symbol's strategy
MergeTickerCall ==
    /\ lastOp = "init"
    /\ ret' = mergeTicker(CurMerger, FnSymbol, symbolConfigs[FnSymbol], now)
    /\ lastOp' = "mergeTicker"
    /\ UNCHANGED <<symbolConfigs, internalData, externalData, now, lastIn, hubVars, pipeVars, procVars, adapterVars>>

MergeFnNext == MergeTickerCall

SpecMergeFn == MergeFnInit /\ [][MergeFnNext]_vars

\* a side as the claims speak of it: it holds a ticker, and it was written less
\* than five seconds ago
SideHoldsTicker(tbl) == FnSymbol \in DOMAIN tbl /\ tbl[FnSymbol].Ticker # Nil

SideAge(tbl) == now - tbl[FnSymbol].Timestamp

SideFresh(tbl) == FnSymbol \in DOMAIN tbl /\ SideAge(tbl) < 5000

\* the merged ticker takes its prices and its source tag from this side
PricesFrom(tbl, source) ==
    /\ ret # Nil
    /\ LET out == ret.Data.v
           tk == tbl[FnSymbol].Ticker
       IN /\ out.LastPriceSource = source
          /\ out.LastPrice = tk.LastPrice
          /\ out.BidPrice = tk.BidPrice
          /\ out.AskPrice = tk.AskPrice
          /\ out.High24h = tk.High24h
          /\ out.Low24h = tk.Low24h

\* C9: in a hybrid ticker merge the price fields and last_price_source come from the
\* internal side whenever it holds a ticker and is fresh, otherwise from the external
\* side when that holds a ticker and is fresh; under the supplement strategy the
\* result is the one the priority strategy gives on the same caches.
C9_TickerPriority ==
    lastOp = "mergeTicker" =>
        /\ (SideHoldsTicker(internalData) /\ SideFresh(internalData))
              => PricesFrom(internalData, "internal")
        /\ (~(SideHoldsTicker(internalData) /\ SideFresh(internalData))
            /\ SideHoldsTicker(externalData) /\ SideFresh(externalData))
              => PricesFrom(externalData, "external")
        /\ symbolConfigs[FnSymbol].MergeStrategy = MergeStrategySupplement
              => ret = mergeTicker(CurMerger, FnSymbol,
                                   SymbolConfig(FnSymbol, ModeHybrid, MergeStrategyPriority), now)

\* the supplement strategy has merged a stale internal ticker with a fresh external
\* one, and the prices are the external ones
C9_Witness ==
    /\ lastOp = "mergeTicker"
    /\ symbolConfigs[FnSymbol].MergeStrategy = MergeStrategySupplement
    /\ SideHoldsTicker(internalData) /\ ~SideFresh(internalData)
    /\ SideHoldsTicker(externalData) /\ SideFresh(externalData)
    /\ ret # Nil
    /\ ret.Data.v.LastPriceSource = "external"

\* C10: a cached side counts as fresh only while now - last_update_ms < 5000: a merge
\* that returns a ticker took it from a side written less than 5000 ms ago, and when
\* neither side is fresh the merge returns nothing.
C10_FreshnessWindow ==
    lastOp = "mergeTicker" =>
        /\ (ret # Nil /\ ret.Data.v.LastPriceSource = "internal")
              => now - internalData[FnSymbol].Timestamp < 5000
        /\ (ret # Nil /\ ret.Data.v.LastPriceSource = "external")
              => now - externalData[FnSymbol].Timestamp < 5000
        /\ (~SideFresh(internalData) /\ ~SideFresh(externalData)) => ret = Nil

\* both sides hold a ticker, one written exactly 5000 ms ago and one a millisecond
\* earlier, and the merge has returned nothing
C10_Witness ==
    /\ lastOp = "mergeTicker"
    /\ SideHoldsTicker(internalData) /\ SideAge(internalData) = 5000
    /\ SideHoldsTicker(externalData) /\ SideAge(externalData) = 5001
    /\ ret = Nil

\* the 24h volume of the ticker a side has cached, 0 when it has none
SideVolume(tbl) == IF SideHoldsTicker(tbl) THEN tbl[FnSymbol].Ticker.Volume24h ELSE 0

\* C11: every merged ticker carries internal_volume_24h and external_volume_24h equal
\* to the volumes of the tickers cached on each side, stale or fresh (0 when a side
\* has no ticker), and total_volume_24h equal to their sum; with the internal side
\* stale and the external side fresh, last_price_source is external.
C11_MergedVolumes ==
    (lastOp = "mergeTicker" /\ ret # Nil) =>
        /\ ret.Data.v.InternalVolume24h = SideVolume(internalData)
        /\ ret.Data.v.ExternalVolume24h = SideVolume(externalData)
        /\ ret.Data.v.TotalVolume24h = SideVolume(internalData) + SideVolume(externalData)
        /\ (SideHoldsTicker(internalData) /\ ~SideFresh(internalData)
            /\ SideHoldsTicker(externalData) /\ SideFresh(externalData))
              => ret.Data.v.LastPriceSource = "external"

\* a merge of a stale internal ticker with a fresh external one has returned a ticker
\* that counts the volume of the stale side too
C11_Witness ==
    /\ lastOp = "mergeTicker"
    /\ ret # Nil
    /\ SideHoldsTicker(internalData) /\ SideAge(internalData) = 5001
    /\ SideHoldsTicker(externalData) /\ SideAge(externalData) = 0
    /\ ret.Data.v.InternalVolume24h = 11
    /\ ret.Data.v.TotalVolume24h = 32

-----------------------------------------------------------------------------
(* SpecDepthFn: the hybrid depth merge as a function of the two cached      *)
(* books of one symbol, applied to every combination of absent, empty,      *)
(* fresh and stale sides, to books shorter than, as long as and longer than *)
(* the two limits, under every merge strategy and either order of equal     *)
(* prices.                                                                  *)

\* n levels in the order the feed gave them, which nothing promises to be the
\* book's order: here the worst price comes first
Ladder(n, from, step) == [i \in 1..n |-> Level(from + step * (i - 1), i)]

\* how many bids and asks the internal book has: none, fewer than the supplement
\* threshold, as many, and as many as the merged book may hold
InternalBidSizes == {0, SupplementBelow - 1, SupplementBelow, MergedDepthLimit}

InternalAskSizes == {SupplementBelow - 1, SupplementBelow}

\* an external book may alone fill the merged book
ExternalSizes == {1, 2, MergedDepthLimit}

\* the books a side may have cached; the second external level has the price of
\* the second internal level
FnBooks(source) ==
    IF source = SourceInternal
    THEN {[Symbol |-> FnSymbol, Bids |-> Ladder(n, 98, 1), Asks |-> Ladder(k, 105, -1),
           Timestamp |-> 1] : n \in InternalBidSizes, k \in InternalAskSizes}
    ELSE {[Symbol |-> FnSymbol, Bids |-> Ladder(n, 97, 2), Asks |-> Ladder(n, 106, -2),
           Timestamp |-> 1] : n \in ExternalSizes}

\* the cached side of a source: no entry, or an entry with or without a book
DepthSideStates(source) ==
    {EmptyMap} \cup
    {MapPut(EmptyMap, FnSymbol,
            [ZeroCache EXCEPT !.Depth = bk, !.Timestamp = FnNow - age]) :
        bk \in {Nil} \cup FnBooks(source), age \in Ages}

DepthFnInit ==
    /\ HubInit
    /\ PipeIdle
    /\ ProcIdle /\ AdapterIdle
    /\ \E strategy \in {MergeStrategyPriority, MergeStrategySupplement, MergeStrategyOverride} :
          symbolConfigs = Configs(strategy)
    /\ internalData \in DepthSideStates(SourceInternal)
    /\ externalData \in DepthSideStates(SourceExternal)
    /\ now = FnNow
    /\ ret = Nil
    /\ lastIn = Nil
    /\ lastOp = "init"

\* DataMerger.mergeDepth on the cached sides, under the symbol's strategy
MergeDepthCall(tie) ==
    /\ lastOp = "init"
    /\ ret' = mergeDepth(CurMerger, FnSymbol, symbolConfigs[FnSymbol], now, tie)
    /\ lastOp' = "mergeDepth"
    /\ UNCHANGED <<symbolConfigs, internalData, externalData, now, lastIn, hubVars, pipeVars, procVars, adapterVars>>

DepthFnNext == \E tie \in TieOrders : MergeDepthCall(tie)

SpecDepthFn == DepthFnInit /\ [][DepthFnNext]_vars

SideHoldsDepth(tbl) == FnSymbol \in DOMAIN tbl /\ tbl[FnSymbol].Depth # Nil

\* the levels a fresh side brings to one side ("Bids" or "Asks") of the merged
\* book, tagged with the side they come from; none when it is stale or has no book
FreshLevels(tbl, source, side) ==
    IF SideHoldsDepth(tbl) /\ SideFresh(tbl)
    THEN Tagged(tbl[FnSymbol].Depth[side], source)
    ELSE <<>>

Occurrences(levels, x) == Cardinality({i \in DOMAIN levels : levels[i] = x})

LevelsOf(levels) == {levels[i] : i \in DOMAIN levels}

\* the same levels, each as often, in whatever order
SameLevels(a, b) ==
    \A x \in LevelsOf(a) \cup LevelsOf(b) : Occurrences(a, x) = Occurrences(b, x)

NonIncreasing(levels) ==
    \A i \in 1..(Len(levels) - 1) : levels[i].Price >= levels[i + 1].Price

NonDecreasing(levels) ==
    \A i \in 1..(Len(levels) - 1) : levels[i].Price <= levels[i + 1].Price

\* kept holds the best levels of all, cut to at most limit: nothing that is not
\* in all, everything when all fits, and only levels no better than every level
\* kept are left out
BestOf(kept, all, limit, desc) ==
    /\ \A x \in LevelsOf(kept) : Occurrences(kept, x) <= Occurrences(all, x)
    /\ Len(kept) = (IF Len(all) > limit THEN limit ELSE Len(all))
    /\ \A x \in LevelsOf(all) :
          Occurrences(kept, x) < Occurrences(all, x) =>
              \A i \in DOMAIN kept :
                  IF desc THEN kept[i].Price >= x.Price ELSE kept[i].Price <= x.Price

StrategyIs(strategy) == symbolConfigs[FnSymbol].MergeStrategy = strategy

\* C12: a hybrid depth merge under the priority strategy returns a book that holds
\* the levels of every fresh side, each tagged with its side, with bids in
\* non-increasing and asks in non-decreasing price order and at most the limit of
\* levels per side (100 in the code): when the fresh sides together have more, the
\* levels cut off are the worst ones
C12_PriorityBook ==
    (lastOp = "mergeDepth" /\ StrategyIs(MergeStrategyPriority)) =>
        LET book == ret.Data.v
            bids == FreshLevels(internalData, SourceInternal, "Bids")
                      \o FreshLevels(externalData, SourceExternal, "Bids")
            asks == FreshLevels(internalData, SourceInternal, "Asks")
                      \o FreshLevels(externalData, SourceExternal, "Asks")
        IN /\ BestOf(book.Bids, bids, MergedDepthLimit, TRUE)
           /\ BestOf(book.Asks, asks, MergedDepthLimit, FALSE)
           /\ NonIncreasing(book.Bids)
           /\ NonDecreasing(book.Asks)
           /\ Len(book.Bids) <= MergedDepthLimit
           /\ Len(book.Asks) <= MergedDepthLimit

\* both sides are fresh, their bids together exceed the limit, and the merged
\* bids are full and hold levels of both sides
C12_Witness ==
    /\ lastOp = "mergeDepth"
    /\ StrategyIs(MergeStrategyPriority)
    /\ Len(FreshLevels(internalData, SourceInternal, "Bids")) > 0
    /\ Len(FreshLevels(internalData, SourceInternal, "Bids"))
         + Len(FreshLevels(externalData, SourceExternal, "Bids")) > MergedDepthLimit
    /\ Len(ret.Data.v.Bids) = MergedDepthLimit
    /\ \E i, j \in DOMAIN ret.Data.v.Bids :
          /\ ret.Data.v.Bids[i].Source = SourceInternal
          /\ ret.Data.v.Bids[j].Source = SourceExternal

HasLevelFrom(levels, source) == \E i \in DOMAIN levels : levels[i].Source = source

\* the levels the supplement strategy puts on one side: the fresh internal ones,
\* and the external ones when the external side is fresh and the internal side
\* brought fewer than the threshold
Supplemented(side) ==
    LET int == FreshLevels(internalData, SourceInternal, side)
        ext == FreshLevels(externalData, SourceExternal, side)
    IN int \o (IF Len(int) < SupplementBelow THEN ext ELSE <<>>)

\* C13: under the supplement strategy, external bid levels appear in the merged
\* book only when the external side is fresh and the fresh internal bid side has
\* fewer levels than the threshold (20 in the code), decided independently for
\* asks; both sides are sorted and no level is cut off
C13_SupplementBook ==
    (lastOp = "mergeDepth" /\ StrategyIs(MergeStrategySupplement)) =>
        LET book == ret.Data.v IN
        /\ HasLevelFrom(book.Bids, SourceExternal) =>
              /\ SideHoldsDepth(externalData) /\ SideFresh(externalData)
              /\ Len(FreshLevels(internalData, SourceInternal, "Bids")) < SupplementBelow
        /\ HasLevelFrom(book.Asks, SourceExternal) =>
              /\ SideHoldsDepth(externalData) /\ SideFresh(externalData)
              /\ Len(FreshLevels(internalData, SourceInternal, "Asks")) < SupplementBelow
        /\ SameLevels(book.Bids, Supplemented("Bids"))
        /\ SameLevels(book.Asks, Supplemented("Asks"))
        /\ NonIncreasing(book.Bids)
        /\ NonDecreasing(book.Asks)

\* both sides are fresh, the internal book is short of bids but not of asks: the
\* external bids are added, the external asks are not, and the bid side is longer
\* than a priority merge would leave it
C13_Witness ==
    /\ lastOp = "mergeDepth"
    /\ StrategyIs(MergeStrategySupplement)
    /\ SideHoldsDepth(internalData) /\ SideFresh(internalData)
    /\ SideHoldsDepth(externalData) /\ SideFresh(externalData)
    /\ HasLevelFrom(ret.Data.v.Bids, SourceInternal)
    /\ HasLevelFrom(ret.Data.v.Bids, SourceExternal)
    /\ ~HasLevelFrom(ret.Data.v.Asks, SourceExternal)
    /\ Len(ret.Data.v.Bids) > MergedDepthLimit

-----------------------------------------------------------------------------
(* SpecPipeline: the collector and a downstream consumer. The adapters hand  *)
(* their records to Collector.handleMarketData, which publishes them; the    *)
(* writer of a topic spreads messages over the topic's partitions with its   *)
(* LeastBytes balancer and sends each partition's batch on its own; the      *)
(* consumer fetches from the partitions in any order.                        *)

\* upstream records the adapters receive while the model runs
MaxRecords == 3

\* partitions of each topic
NumPartitions == 2

Partitions == 1..NumPartitions

TopicMarketTicker == "market.ticker"

TopicMarketTrade == "market.trade"

Topics == {TopicMarketTicker, TopicMarketTrade}

ExchangeInternal == "internal"

ExchangeBinance == "binance"

PipeSymbols == {"XYZUSDT"}

\* KafkaPublisher.getTopicByType, for the kinds of record fed here
getTopicByType(dataType) ==
    IF dataType = DataTypeTicker THEN TopicMarketTicker
    ELSE IF dataType = DataTypeTrade THEN TopicMarketTrade
    ELSE ""

\* json.Marshal of a MarketData: the keys of the struct tags, the payload without its
\* Go type
ToJSONBytes(data) ==
    [exchange |-> data.Exchange, symbol |-> data.Symbol, type |-> data.Type,
     source |-> data.Source, timestamp |-> data.Timestamp, data |-> data.Data.v]

\* json.Unmarshal into a MarketData: Data comes back as a generic map
FromJSONBytes(value) ==
    MarketData(value.exchange, value.symbol, value.type, value.source, value.timestamp,
               [form |-> "val", kind |-> "map", v |-> value.data])

\* bytes of a message as the balancer counts them: key plus value, here one unit for
\* the key and one for each field of the value
MessageBytes(msg) == 1 + 5 + Cardinality(DOMAIN msg.Value.data)

\* LeastBytes.Balance: the first partition with the fewest bytes
Balance(ctr) ==
    CHOOSE p \in Partitions :
        /\ \A q \in Partitions : ctr[p] <= ctr[q]
        /\ \A q \in Partitions : (q < p) => ctr[q] > ctr[p]

\* the publisher as a value
Pub(ctr, bat) == [counters |-> ctr, batches |-> bat]

\* KafkaPublisher.Publish: the message keyed by the symbol goes to the writer of the
\* record's topic, which asks its balancer for a partition and queues the message
Publish(pub, data) ==
    LET topic == getTopicByType(data.Type)
        msg == [Key |-> data.Symbol, Value |-> ToJSONBytes(data)]
        part == Balance(pub.counters[topic])
    IN IF topic = "" THEN pub
       ELSE Pub([pub.counters EXCEPT ![topic][part] = @ + MessageBytes(msg)],
                [pub.batches EXCEPT ![topic][part] = Append(@, msg)])

\* Collector.handleMarketData
handleMarketData(pub, data) == Publish(pub, data)

CurPub == Pub(counters, batches)

SetPub(pub) ==
    /\ counters' = pub.counters
    /\ batches' = pub.batches

PipelineInit ==
    /\ HubInit
    /\ symbolConfigs = Configs(MergeStrategyPriority)
    /\ internalData = EmptyMap
    /\ externalData = EmptyMap
    /\ now = 0
    /\ ret = Nil
    /\ lastIn = Nil
    /\ lastOp = "init"
    /\ nextId = 1
    /\ counters = [t \in Topics |-> [p \in Partitions |-> 0]]
    /\ batches = [t \in Topics |-> [p \in Partitions |-> <<>>]]
    /\ logs = [t \in Topics |-> [p \in Partitions |-> <<>>]]
    /\ offsets = [t \in Topics |-> [p \in Partitions |-> 0]]
    /\ handled = [t \in Topics |-> <<>>]
    /\ ProcIdle /\ AdapterIdle

pipeRest == <<hubVars, mergerVars, procVars, adapterVars, lastOp>>

\* InternalAdapter.handleTrade: a trade POSTed by the internal engine
InternalTrade(symbol) ==
    /\ nextId <= MaxRecords
    /\ LET standardTrade == [Symbol |-> symbol, TradeID |-> nextId, Price |-> 100,
                             Amount |-> 1, Side |-> "buy", Timestamp |-> now]
           marketData == MarketData(ExchangeInternal, symbol, DataTypeTrade, SourceInternal,
                                    now, Ptr("Trade", standardTrade))
       IN SetPub(handleMarketData(CurPub, marketData))
    /\ nextId' = nextId + 1
    /\ UNCHANGED <<logs, offsets, handled, pipeRest>>

\* BinanceAdapter.handleMessage on a trade frame: parseTrade leaves Source unset
BinanceTrade(symbol) ==
    /\ nextId <= MaxRecords
    /\ LET trade == [Symbol |-> symbol, TradeID |-> nextId, Price |-> 100, Amount |-> 1,
                     Side |-> "sell", Timestamp |-> now]
           marketData == MarketData(ExchangeBinance, symbol, DataTypeTrade, "", now,
                                    Ptr("Trade", trade))
       IN SetPub(handleMarketData(CurPub, marketData))
    /\ nextId' = nextId + 1
    /\ UNCHANGED <<logs, offsets, handled, pipeRest>>

\* BinanceAdapter.handleMessage on a 24hrTicker frame
BinanceTicker(symbol) ==
    /\ nextId <= MaxRecords
    /\ LET ticker == [TickerOf(symbol, 2) EXCEPT !.LastPrice = nextId, !.Timestamp = now]
           marketData == MarketData(ExchangeBinance, symbol, DataTypeTicker, "", now,
                                    Ptr("Ticker", ticker))
       IN SetPub(handleMarketData(CurPub, marketData))
    /\ nextId' = nextId + 1
    /\ UNCHANGED <<logs, offsets, handled, pipeRest>>

\* the async writer sends the batch of one partition to the broker
WriterFlush(topic, part) ==
    /\ batches[topic][part] # <<>>
    /\ logs' = [logs EXCEPT ![topic][part] = @ \o batches[topic][part]]
    /\ batches' = [batches EXCEPT ![topic][part] = <<>>]
    /\ UNCHANGED <<nextId, counters, offsets, handled, pipeRest>>

\* bytes that json.Unmarshal refuses: no JSON document, or a key of another type
\* than the field of MarketData
Malformed == {[raw |-> "{"], [raw |-> "{\"timestamp\":\"x\"}"]}

\* FromJSONBytes returns an error
ParseError(value) == "raw" \in DOMAIN value

\* a consumer whose handler is called on a zero MarketData for a value that failed to parse
HandleUnchecked(hs, msg) ==
    Append(hs, IF ParseError(msg.Value)
               THEN MarketData("", "", "", "", 0, [form |-> "val", kind |-> "nil", v |-> Nil])
               ELSE FromJSONBytes(msg.Value))

\* the records given to the topic's handler, after one more message: none for a value
\* that fails to parse
Handle(hs, msg) ==
    IF ParseError(msg.Value) THEN hs ELSE Append(hs, FromJSONBytes(msg.Value))

\* one turn of KafkaConsumer.consume: FetchMessage returns the next message of one of
\* the partitions, the value is parsed, the handler called unless the parse failed,
\* the message committed
Consume(topic, part) ==
    /\ offsets[topic][part] < Len(logs[topic][part])
    /\ LET msg == logs[topic][part][offsets[topic][part] + 1]
       IN handled' = [handled EXCEPT ![topic] = Handle(@, msg)]
    /\ offsets' = [offsets EXCEPT ![topic][part] = @ + 1]
    /\ UNCHANGED <<nextId, counters, batches, logs, pipeRest>>

PipelineNext ==
    \/ \E symbol \in PipeSymbols : InternalTrade(symbol)
    \/ \E symbol \in PipeSymbols : BinanceTrade(symbol)
    \/ \E symbol \in PipeSymbols : BinanceTicker(symbol)
    \/ \E topic \in Topics, part \in Partitions : WriterFlush(topic, part)
    \/ \E topic \in Topics, part \in Partitions : Consume(topic, part)

SpecPipeline == PipelineInit /\ [][PipelineNext]_vars

\* number of messages on the topics that no publisher of this program wrote
MaxForeign == 2

Foreign ==
    {<<topic, part, i>> \in Topics \X Partitions \X (1..(MaxRecords + MaxForeign)) :
        /\ i <= Len(logs[topic][part])
        /\ ParseError(logs[topic][part][i].Value)}

\* another producer writes a message to a partition of a topic
ForeignWrite(topic, part, value) ==
    /\ Cardinality(Foreign) < MaxForeign
    /\ logs' = [logs EXCEPT ![topic][part] = Append(@, [Key |-> "", Value |-> value])]
    /\ UNCHANGED <<nextId, counters, batches, offsets, handled, pipeRest>>

ConsumerNext ==
    \/ \E symbol \in PipeSymbols : InternalTrade(symbol)
    \/ \E symbol \in PipeSymbols : BinanceTrade(symbol)
    \/ \E symbol \in PipeSymbols : BinanceTicker(symbol)
    \/ \E topic \in Topics, part \in Partitions : WriterFlush(topic, part)
    \/ \E topic \in Topics, part \in Partitions : Consume(topic, part)
    \/ \E topic \in Topics, part \in Partitions, value \in Malformed :
          ForeignWrite(topic, part, value)

SpecConsumer == PipelineInit /\ [][ConsumerNext]_vars

\* the position of a record in the order its adapter received it
SeqNo(data) ==
    IF data.Type = DataTypeTrade THEN data.Data.v.TradeID ELSE data.Data.v.LastPrice

\* C2: of two records of the same symbol that one adapter handed to the publisher,
\* the consumer of their topic handles the earlier one first.
C2_PerSymbolOrder ==
    \A topic \in Topics :
        \A i, j \in 1..Len(handled[topic]) :
            (/\ i < j
             /\ handled[topic][i].Symbol = handled[topic][j].Symbol
             /\ handled[topic][i].Exchange = handled[topic][j].Exchange)
                => SeqNo(handled[topic][i]) < SeqNo(handled[topic][j])

\* C8: for a symbol configured external_only no record of the internal receiver
\* reaches the broker.
C8_InternalNeverPublished ==
    \A topic \in Topics, part \in Partitions :
        \A i \in 1..Len(logs[topic][part]) :
            LET value == logs[topic][part][i].Value
            IN (ModeOf(value.symbol) = ModeExternalOnly /\ value.type = DataTypeTrade)
                  => value.exchange # ExchangeInternal

-----------------------------------------------------------------------------
(* Candle times (common/utils/time.go).  GetKlineOpenTime takes the instant *)
(* apart into the calendar fields of the local time zone and puts the       *)
(* truncated fields together again with time.Date.                          *)

Minute == 60000

Hour == 60 * Minute

Day == 24 * Hour

Interval1m == "1m"

Interval5m == "5m"

Interval15m == "15m"

Interval30m == "30m"

Interval1h == "1h"

Interval4h == "4h"

Interval1d == "1d"

\* Location.lookup: the offset in force at an instant
Offset(z, unix) == IF unix < z.at THEN z.before ELSE z.after

\* the wall clock of the zone at an instant, as milliseconds
Wall(z, unix) == unix + Offset(z, unix)

\* t.Year(), t.Month(), t.Day() taken together: the calendar day, counted from
\* the epoch
DayOf(z, unix) == Wall(z, unix) \div Day

\* t.Hour()
HourOf(z, unix) == (Wall(z, unix) % Day) \div Hour

\* t.Minute()
MinuteOf(z, unix) == (Wall(z, unix) % Hour) \div Minute

\* time.Date(year, month, day, hour, min, 0, 0, loc).UnixMilli(): the instant at
\* which the zone shows this wall clock.  Around a change of offset a wall clock
\* occurs twice or not at all; Date then answers with one of the two offsets
\* involved
Date(z, day, hour, min) ==
    LET wall == day * Day + hour * Hour + min * Minute
        early == wall - z.before
        late == wall - z.after
        earlyRight == early < z.at
        lateRight == late >= z.at
    IN IF earlyRight /\ ~lateRight THEN early
       ELSE IF lateRight /\ ~earlyRight THEN late
       ELSE IF z.prefer = "before" THEN early ELSE late

GetKlineOpenTime(timestamp, interval, z) ==
    LET day == DayOf(z, timestamp)
        hour == HourOf(z, timestamp)
        min == MinuteOf(z, timestamp)
    IN CASE interval = Interval1m -> Date(z, day, hour, min)
         [] interval = Interval5m -> Date(z, day, hour, (min \div 5) * 5)
         [] interval = Interval15m -> Date(z, day, hour, (min \div 15) * 15)
         [] interval = Interval30m -> Date(z, day, hour, (min \div 30) * 30)
         [] interval = Interval1h -> Date(z, day, hour, 0)
         [] interval = Interval4h -> Date(z, day, (hour \div 4) * 4, 0)
         [] interval = Interval1d -> Date(z, day, 0, 0)
         [] OTHER -> timestamp

GetKlineCloseTime(openTime, interval) ==
    CASE interval = Interval1m -> openTime + 1 * Minute - 1
      [] interval = Interval5m -> openTime + 5 * Minute - 1
      [] interval = Interval15m -> openTime + 15 * Minute - 1
      [] interval = Interval30m -> openTime + 30 * Minute - 1
      [] interval = Interval1h -> openTime + 1 * Hour - 1
      [] interval = Interval4h -> openTime + 4 * Hour - 1
      [] interval = Interval1d -> openTime + 24 * Hour - 1
      [] OTHER -> openTime

\* KlineHandler.intervals
HandlerIntervals ==
    <<Interval1m, Interval5m, Interval15m, Interval1h, Interval4h, Interval1d>>

-----------------------------------------------------------------------------
(* SpecKlineTime: the candle times as functions of the instant, the         *)
(* interval and the time zone of the process.                               *)

\* the day on which the zones that change their offset do so
ChangeDay == 5

\* the zones the process may run in: UTC, one with a fixed offset that is not a
\* whole number of hours, two that put the clock back by an hour (from -4 h to
\* -5 h, and from +1 h to 0), and one that puts it forward (from -5 h to -4 h)
Zones ==
    {UTC, Zone(0, 330 * Minute, 330 * Minute, "before")}
    \cup {Zone(ChangeDay * Day + 6 * Hour, -4 * Hour, -5 * Hour, prefer) :
              prefer \in {"before", "after"}}
    \cup {Zone(ChangeDay * Day + 1 * Hour, 1 * Hour, 0, prefer) :
              prefer \in {"before", "after"}}
    \cup {Zone(ChangeDay * Day + 7 * Hour, -5 * Hour, -4 * Hour, prefer) :
              prefer \in {"before", "after"}}

\* hours from the start of the day of the change, and instants within the hour
StampHours == {-3, 0, 1, 2, 4, 5, 6, 7, 8, 9, 12, 23, 26, 28, 29}

StampOffsets == {0, Minute - 1, 30 * Minute + 1}

TimeStamps == {ChangeDay * Day + h * Hour + d : h \in StampHours, d \in StampOffsets}

IntervalSet == {HandlerIntervals[i] : i \in DOMAIN HandlerIntervals}

KlineTimeInit ==
    /\ HubInit
    /\ PipeIdle
    /\ symbolConfigs = EmptyMap
    /\ internalData = EmptyMap
    /\ externalData = EmptyMap
    /\ now = 0
    /\ ret = Nil
    /\ lastIn \in [timestamp : TimeStamps, interval : IntervalSet]
    /\ zone \in Zones
    /\ aggregators = EmptyMap
    /\ klines = EmptyMap
    /\ tradeCount = 0
    /\ managers = EmptyMap
    /\ depths = EmptyMap
    /\ handed = Nil
    /\ depthCount = 0
    /\ AdapterIdle
    /\ lastOp = "init"

\* the two calls KlineAggregator.AddTrade makes for a trade
KlineTimesCall ==
    /\ lastOp = "init"
    /\ LET openTime == GetKlineOpenTime(lastIn.timestamp, lastIn.interval, zone)
       IN ret' = [OpenTime |-> openTime,
                  CloseTime |-> GetKlineCloseTime(openTime, lastIn.interval)]
    /\ lastOp' = "GetKlineOpenTime"
    /\ UNCHANGED <<symbolConfigs, internalData, externalData, now, lastIn,
                   hubVars, pipeVars, procVars, adapterVars>>

KlineTimeNext == KlineTimesCall

SpecKlineTime == KlineTimeInit /\ [][KlineTimeNext]_vars

\* period(I) in milliseconds
Period(interval) ==
    CASE interval = Interval1m -> Minute
      [] interval = Interval5m -> 5 * Minute
      [] interval = Interval15m -> 15 * Minute
      [] interval = Interval1h -> Hour
      [] interval = Interval4h -> 4 * Hour
      [] interval = Interval1d -> Day

\* C17: for every interval I in {1m, 5m, 15m, 1h, 4h, 1d} and every trade
\* timestamp t, open_time(t, I) <= t <= close_time(t, I) and
\* close_time = open_time + period(I) - 1
C17_CandleBounds ==
    lastOp = "GetKlineOpenTime" =>
        /\ ret.OpenTime <= lastIn.timestamp
        /\ lastIn.timestamp <= ret.CloseTime
        /\ ret.CloseTime = ret.OpenTime + Period(lastIn.interval) - 1

\* the same in a process whose zone never changes its offset
CandleBoundsFixedZone ==
    (lastOp = "GetKlineOpenTime" /\ zone.before = zone.after) =>
        /\ ret.OpenTime <= lastIn.timestamp
        /\ lastIn.timestamp <= ret.CloseTime
        /\ ret.CloseTime = ret.OpenTime + Period(lastIn.interval) - 1

-----------------------------------------------------------------------------
(* The candle aggregators (handler/kline.go) and the store's candle lists   *)
(* (storage/redis.go).                                                      *)

\* SaveKline trims the list to this many candles (LTRIM 0 999 in the code),
\* scaled down
KlineListLimit == 3

\* utils.ToJSON of a models.Kline: the object with the names of the json tags
KlineJSON(k) ==
    [symbol |-> k.Symbol, interval |-> k.Interval, open_time |-> k.OpenTime,
     close_time |-> k.CloseTime, open |-> k.Open, high |-> k.High, low |-> k.Low,
     close |-> k.Close, volume |-> k.Volume, quote_vol |-> k.QuoteVol,
     trade_num |-> k.TradeNum]

\* the key kline:{symbol}:{interval} of the store, and symbol:interval of
\* h.aggregators
KlineKey(symbol, interval) == <<symbol, interval>>

\* RedisStorage.SaveKline: LPUSH and LTRIM in one pipeline; with the store down
\* the pipeline fails and the list is as it was
SaveKline(store, kline, up) ==
    LET key == KlineKey(kline.Symbol, kline.Interval)
        list == IF key \in DOMAIN store THEN store[key] ELSE <<>>
    IN IF up
       THEN MapPut(store, key, Take(<<KlineJSON(kline)>> \o list, KlineListLimit))
       ELSE store

\* a plausible bug: the high and the low are left as the first trade set them
updateKlineCloseOnly(k, trade) ==
    [k EXCEPT !.Close = trade.Price,
              !.Volume = @ + trade.Amount,
              !.QuoteVol = @ + trade.Price * trade.Amount,
              !.TradeNum = @ + 1]

\* a plausible bug: the quote volume grows by the price alone
updateKlineQuoteByPrice(k, trade) ==
    [k EXCEPT !.High = IF trade.Price > k.High THEN trade.Price ELSE k.High,
              !.Low = IF trade.Price < k.Low THEN trade.Price ELSE k.Low,
              !.Close = trade.Price,
              !.Volume = @ + trade.Amount,
              !.QuoteVol = @ + trade.Price,
              !.TradeNum = @ + 1]

updateKline(k, trade) ==
    [k EXCEPT !.High = IF trade.Price > k.High THEN trade.Price ELSE k.High,
              !.Low = IF trade.Price < k.Low THEN trade.Price ELSE k.Low,
              !.Close = trade.Price,
              !.Volume = @ + trade.Amount,
              !.QuoteVol = @ + trade.Price * trade.Amount,
              !.TradeNum = @ + 1]

\* &models.Kline{...} of AddTrade
NewKline(symbol, interval, openTime, trade) ==
    [Symbol |-> symbol, Interval |-> interval, OpenTime |-> openTime,
     CloseTime |-> GetKlineCloseTime(openTime, interval),
     Open |-> trade.Price, High |-> trade.Price, Low |-> trade.Price,
     Close |-> trade.Price, Volume |-> 0, QuoteVol |-> 0, TradeNum |-> 0]

\* an aggregator that holds on to a closed candle until the store has taken it
AddTradeHoldUnsaved(currentKline, store, symbol, interval, trade, z, up) ==
    LET openTime == GetKlineOpenTime(trade.Timestamp, interval, z)
        isNew == currentKline = Nil \/ currentKline.OpenTime # openTime
        saved == currentKline = Nil \/ up
        store1 == IF isNew /\ currentKline # Nil THEN SaveKline(store, currentKline, up) ELSE store
        k == IF isNew /\ saved THEN NewKline(symbol, interval, openTime, trade) ELSE currentKline
    IN [currentKline |-> updateKline(k, trade), store |-> store1]

\* KlineAggregator.AddTrade, on the aggregator's currentKline (Nil: none yet) and
\* the store; it gives the candle and the store it leaves behind
AddTrade(currentKline, store, symbol, interval, trade, z, up) ==
    LET openTime == GetKlineOpenTime(trade.Timestamp, interval, z)
        isNew == currentKline = Nil \/ currentKline.OpenTime # openTime
        store1 == IF isNew /\ currentKline # Nil THEN SaveKline(store, currentKline, up) ELSE store
        k == IF isNew THEN NewKline(symbol, interval, openTime, trade) ELSE currentKline
    IN [currentKline |-> updateKline(k, trade), store |-> store1]

\* KlineHandler.HandleTrade: the loop over h.intervals from the i-th on
RECURSIVE HandleTradeFrom(_, _, _, _, _, _)
HandleTradeFrom(i, aggs, store, trade, z, up) ==
    IF i > Len(HandlerIntervals) THEN [aggregators |-> aggs, klines |-> store]
    ELSE LET interval == HandlerIntervals[i]
             key == KlineKey(trade.Symbol, interval)
             r == AddTrade(Lookup(aggs, key), store, trade.Symbol, interval, trade, z, up)
         IN HandleTradeFrom(i + 1, MapPut(aggs, key, r.currentKline), r.store, trade, z, up)

HandleTrade(aggs, store, trade, z, up) == HandleTradeFrom(1, aggs, store, trade, z, up)

-----------------------------------------------------------------------------
(* SpecKline: trades of one symbol, in any order of their timestamps, fed   *)
(* to the candle handler of a process running in UTC, with the store up or  *)
(* down at each call.                                                       *)

\* number of trades handled
MaxTrades == 4

KlineSymbol == "BTCUSDT"

\* instants in the same minute, in the next minute and on the next day
KlineStamps == {Day, Day + 1, Day + Minute, 2 * Day}

\* price and amount of a trade
KlineFills == {<<1, 2>>, <<2, 1>>, <<3, 2>>}

KlineTrades ==
    {[Symbol |-> KlineSymbol, TradeID |-> "t", Price |-> f[1], Amount |-> f[2],
      Side |-> "buy", Timestamp |-> ts] : f \in KlineFills, ts \in KlineStamps}

KlineInit ==
    /\ HubInit
    /\ MergerIdle
    /\ PipeIdle
    /\ ProcIdle /\ AdapterIdle
    /\ lastOp = "init"

\* the trade topic's handler passing a trade to KlineHandler.HandleTrade
HandleTradeCall(trade, up) ==
    /\ tradeCount < MaxTrades
    /\ LET r == HandleTrade(aggregators, klines, trade, zone, up) IN
         /\ aggregators' = r.aggregators
         /\ klines' = r.klines
    /\ tradeCount' = tradeCount + 1
    /\ lastIn' = trade
    /\ lastOp' = "HandleTrade"
    /\ UNCHANGED <<zone, managers, depths, handed, depthCount, symbolConfigs,
                   internalData, externalData, now, ret, hubVars, pipeVars, adapterVars>>

KlineNext == \E trade \in KlineTrades, up \in BOOLEAN : HandleTradeCall(trade, up)

SpecKline == KlineInit /\ [][KlineNext]_vars

KlineKeys == {KlineKey(KlineSymbol, interval) : interval \in IntervalSet}

\* the persisted list of a key, empty when the store has none
ListOf(store, key) == IF key \in DOMAIN store THEN store[key] ELSE <<>>

\* the open_time the handled trade has in the interval of a key
TradeOpenTime(trade, key) == GetKlineOpenTime(trade.Timestamp, key[2], zone)

\* every write to the store happens when a trade arrives whose open_time differs
\* from the open candle's; what is written is the candle as it stood before that
\* trade, and the new candle is set up from the trade after the write
WrittenOnClose ==
    [][\A key \in KlineKeys :
          ListOf(klines', key) # ListOf(klines, key) =>
              /\ key \in DOMAIN aggregators
              /\ TradeOpenTime(lastIn', key) # aggregators[key].OpenTime
              /\ ListOf(klines', key)
                   = Take(<<KlineJSON(aggregators[key])>> \o ListOf(klines, key),
                          KlineListLimit)
              /\ aggregators'[key].OpenTime = TradeOpenTime(lastIn', key)
              /\ aggregators'[key].TradeNum = 1]_vars

\* C14: a candle is written to the store only when a trade arrives whose
\* open_time differs from the open candle's, before the new candle is set up
\* (WrittenOnClose), and the candle being built is never in the persisted list: no
\* candle of the list has the open_time of the open candle
C14_BuildingCandleNotPersisted ==
    \A key \in DOMAIN aggregators :
        \A i \in DOMAIN ListOf(klines, key) :
            ListOf(klines, key)[i].open_time # aggregators[key].OpenTime

Max(a, b) == IF a > b THEN a ELSE b

Min(a, b) == IF a < b THEN a ELSE b

\* C15: the first trade of a period (one that finds no open candle, or one of
\* another open_time) leaves the open candle with open = high = low = close =
\* trade price, volume = trade amount and n_trades = 1; each later trade of the
\* same period sets high to max(high, price), low to min(low, price), close to
\* price, adds amount to volume, price x amount to quote_vol and 1 to n_trades,
\* and leaves open and open_time unchanged
C15_CandleUpdate ==
    [][lastOp' = "HandleTrade" =>
          \A key \in KlineKeys :
              LET old == Lookup(aggregators, key)
                  new == aggregators'[key]
                  trade == lastIn'
              IN IF old = Nil \/ old.OpenTime # TradeOpenTime(trade, key)
                 THEN /\ new.Open = trade.Price
                      /\ new.High = trade.Price
                      /\ new.Low = trade.Price
                      /\ new.Close = trade.Price
                      /\ new.Volume = trade.Amount
                      /\ new.TradeNum = 1
                 ELSE /\ new.High = Max(old.High, trade.Price)
                      /\ new.Low = Min(old.Low, trade.Price)
                      /\ new.Close = trade.Price
                      /\ new.Volume = old.Volume + trade.Amount
                      /\ new.QuoteVol = old.QuoteVol + trade.Price * trade.Amount
                      /\ new.TradeNum = old.TradeNum + 1
                      /\ new.Open = old.Open
                      /\ new.OpenTime = old.OpenTime]_vars

\* three trades of one minute: it opened at 2, went up to 3 and down to 1
C15_Witness ==
    /\ lastOp = "HandleTrade"
    /\ LET key == KlineKey(KlineSymbol, Interval1m) IN
         /\ key \in DOMAIN aggregators
         /\ aggregators[key].TradeNum = 3
         /\ aggregators[key].Open = 2
         /\ aggregators[key].High = 3
         /\ aggregators[key].Low = 1
         /\ aggregators[key].Close = 1
         /\ aggregators[key].Volume = 5
         /\ aggregators[key].QuoteVol = 10

\* C16: after any sequence of trades of a symbol, the persisted list
\* kline:{symbol}:{interval} holds at most the limit of candles (1000 in the
\* code) and, read from the head, their open_time values are in descending order
C16_ListBoundedDescending ==
    \A key \in DOMAIN klines :
        /\ Len(klines[key]) <= KlineListLimit
        /\ \A i \in 1..(Len(klines[key]) - 1) :
              klines[key][i].open_time > klines[key][i + 1].open_time

\* the list never holds more than the limit of candles
ListBounded == \A key \in DOMAIN klines : Len(klines[key]) <= KlineListLimit

-----------------------------------------------------------------------------
(* The depth managers (handler/depth.go) and the store's depth snapshots    *)
(* (storage/redis.go).                                                      *)

\* utils.ToJSON of a models.OrderBook: the object with the names of the json tags
DepthJSON(book) ==
    [symbol |-> book.Symbol,
     bids |-> [i \in DOMAIN book.Bids |->
                  [price |-> book.Bids[i].Price, amount |-> book.Bids[i].Amount]],
     asks |-> [i \in DOMAIN book.Asks |->
                  [price |-> book.Asks[i].Price, amount |-> book.Asks[i].Amount]],
     timestamp |-> book.Timestamp]

\* RedisStorage.SaveDepth: SET depth:{symbol}; with the store down it fails
SaveDepth(store, orderBook, up) ==
    IF up THEN MapPut(store, orderBook.Symbol, DepthJSON(orderBook)) ELSE store

\* DepthManager.UpdateDepth with sortDepth: the manager's sides become the
\* record's, sorted, and the whole book goes to the store
UpdateDepth(symbol, depth, store, tie, up) ==
    LET bids == SortLevels(depth.Bids, TRUE, tie)
        asks == SortLevels(depth.Asks, FALSE, tie)
        orderBook == [Symbol |-> symbol, Bids |-> bids, Asks |-> asks,
                      Timestamp |-> depth.Timestamp]
    IN [manager |-> [bids |-> bids, asks |-> asks],
        handed |-> orderBook,
        store |-> SaveDepth(store, orderBook, up)]

-----------------------------------------------------------------------------
(* SpecDepth: depth records of one symbol, of any length up to one level    *)
(* more than an order book may hold and in any order of their prices, fed   *)
(* to the depth handler, with the store up or down at each call.            *)

\* number of depth records handled
MaxDepths == 2

\* the sequences of levels of the given length at the prices 1 and 2; the amount
\* tells the levels of a side apart
RECURSIVE LevelSeqs(_)
LevelSeqs(n) ==
    IF n = 0 THEN {<<>>}
    ELSE {Append(levels, Level(price, n)) : levels \in LevelSeqs(n - 1), price \in {1, 2}}

DepthBids == UNION {LevelSeqs(n) : n \in 0..(MergedDepthLimit + 1)}

DepthAsks == {<<>>, <<Level(4, 1), Level(3, 2)>>, Ladder(MergedDepthLimit + 1, 6, -1)}

DepthRecords ==
    {[Symbol |-> KlineSymbol, Bids |-> bids, Asks |-> asks, Timestamp |-> 1] :
        bids \in DepthBids, asks \in DepthAsks}

DepthInit ==
    /\ HubInit
    /\ MergerIdle
    /\ PipeIdle
    /\ ProcIdle /\ AdapterIdle
    /\ lastOp = "init"

\* DepthHandler.HandleDepth: the symbol's manager, made on first use, updates
HandleDepthCall(depth, tie, up) ==
    /\ depthCount < MaxDepths
    /\ LET r == UpdateDepth(depth.Symbol, depth, depths, tie, up) IN
         /\ managers' = MapPut(managers, depth.Symbol, r.manager)
         /\ handed' = r.handed
         /\ depths' = r.store
    /\ depthCount' = depthCount + 1
    /\ lastIn' = depth
    /\ lastOp' = "HandleDepth"
    /\ UNCHANGED <<zone, aggregators, klines, tradeCount, symbolConfigs, internalData,
                   externalData, now, ret, hubVars, pipeVars, adapterVars>>

DepthNext ==
    \E depth \in DepthRecords, tie \in TieOrders, up \in BOOLEAN :
        HandleDepthCall(depth, tie, up)

SpecDepth == DepthInit /\ [][DepthNext]_vars

\* C19: every order book the processor hands to the storage layer, for any
\* incoming depth record, has bids in non-increasing price order, asks in
\* non-decreasing price order and at most the limit of levels (100) on each side
C19_HandedBookOrderedBounded ==
    handed # Nil =>
        /\ NonIncreasing(handed.Bids)
        /\ NonDecreasing(handed.Asks)
        /\ Len(handed.Bids) <= MergedDepthLimit
        /\ Len(handed.Asks) <= MergedDepthLimit

\* every book handed to the store is sorted and holds the levels of the record
HandedBookOrdered ==
    handed # Nil =>
        /\ NonIncreasing(handed.Bids)
        /\ NonDecreasing(handed.Asks)
        /\ SameLevels(handed.Bids, lastIn.Bids)
        /\ SameLevels(handed.Asks, lastIn.Asks)

-----------------------------------------------------------------------------
(* Exchange adapters (merger.go): BinanceAdapter and OKXAdapter keep one
   connection, the list of streams their Subscribe calls have written, and two
   goroutines per connection (readMessages, keepAlive); either goroutine can run
   handleReconnect, which dials a new connection and resends the list.  The two
   adapters differ in the form of a stream and of the frame only.  Close is not
   part of this specification, so b.reconnect stays true.
   A string is written as the sequence of its pieces. *)

\* sessions (connections) the adapter opens in one run
MaxSessions == 3

\* reconnectConf.MaxRetries (10 in NewBinanceAdapter and NewOKXAdapter)
MaxRetries == 3

\* calls of Subscribe in one run
MaxSubscribes == 2

ExchangeOKX == "okx"

Venues == {ExchangeBinance, ExchangeOKX}

\* the calls of Subscribe: "BTCUSDT" with two channels, and "BTCUSDT" and "ETHBTC" with
\* three, of which "funding" is a channel no adapter knows
SubscribeInputs ==
    {[symbols |-> <<(<<"BTC", "USDT">>)>>, channels |-> <<DataTypeTrade, DataTypeTicker>>],
     [symbols |-> <<(<<"BTC", "USDT">>), (<<"ETH", "BTC">>)>>,
      channels |-> <<DataTypeDepth, DataTypeKline, "funding">>]}

\* strings.ToLower
ToLower(s) ==
    [i \in DOMAIN s |-> CASE s[i] = "BTC" -> "btc"
                          [] s[i] = "ETH" -> "eth"
                          [] s[i] = "USDT" -> "usdt"
                          [] OTHER -> s[i]]

\* the iterations of the loop over the symbols and, inside it, over the channels
Pairs(symbols, channels) ==
    [k \in 1..(Len(symbols) * Len(channels)) |->
        [symbol |-> symbols[((k - 1) \div Len(channels)) + 1],
         channel |-> channels[((k - 1) % Len(channels)) + 1]]]

\* the switch of BinanceAdapter.Subscribe; "" where no case matches
BinanceSuffix(channel) ==
    CASE channel = DataTypeTicker -> "@ticker"
      [] channel = DataTypeDepth -> "@depth20@100ms"
      [] channel = DataTypeTrade -> "@trade"
      [] channel = DataTypeKline -> "@kline_1m"
      [] OTHER -> ""

BinanceStreams(symbols, channels) ==
    LET known == SelectSeq(Pairs(symbols, channels), LAMBDA p : BinanceSuffix(p.channel) # "")
    IN [k \in DOMAIN known |-> ToLower(known[k].symbol) \o <<BinanceSuffix(known[k].channel)>>]

\* the switch of OKXAdapter.Subscribe; "" where it continues with the next channel
OKXChannel(channel) ==
    CASE channel = DataTypeTicker -> "tickers"
      [] channel = DataTypeDepth -> "books5"
      [] channel = DataTypeTrade -> "trades"
      [] channel = DataTypeKline -> "candle1m"
      [] OTHER -> ""

\* BTCUSDT -> BTC-USDT; anything not ending in USDT is returned as it is
formatSymbol(symbol) ==
    IF Len(symbol) > 0 /\ symbol[Len(symbol)] = "USDT"
    THEN SubSeq(symbol, 1, Len(symbol) - 1) \o <<"-", "USDT">>
    ELSE symbol

OKXArgs(symbols, channels) ==
    LET known == SelectSeq(Pairs(symbols, channels), LAMBDA p : OKXChannel(p.channel) # "")
    IN [k \in DOMAIN known |-> [channel |-> <<OKXChannel(known[k].channel)>>,
                                instId |-> formatSymbol(known[k].symbol)]]

\* fmt.Sprintf("%s:%s", okxChannel, instId)
Sprintf(arg) == arg.channel \o <<":">> \o arg.instId

\* strings.Split
RECURSIVE Split(_, _)
Split(s, sep) ==
    IF \A i \in DOMAIN s : s[i] # sep
    THEN <<s>>
    ELSE LET i == CHOOSE k \in DOMAIN s : s[k] = sep /\ \A j \in 1..(k - 1) : s[j] # sep
         IN <<SubSeq(s, 1, i - 1)>> \o Split(SubSeq(s, i + 1, Len(s)), sep)

\* the args OKXAdapter.resubscribe builds: entries that do not split in two are left out
OKXResubscribeArgs(subs) ==
    LET parts == [k \in DOMAIN subs |-> Split(subs[k], ":")]
        two == SelectSeq(parts, LAMBDA p : Len(p) = 2)
    IN [k \in DOMAIN two |-> [channel |-> two[k][1], instId |-> two[k][2]]]

\* "params" / "args" of the frame Subscribe writes
SubscribeParams(v, symbols, channels) ==
    IF v = ExchangeBinance THEN BinanceStreams(symbols, channels) ELSE OKXArgs(symbols, channels)

\* what Subscribe appends to the subscriptions after a successful write
SubscribeSaved(v, symbols, channels) ==
    IF v = ExchangeBinance
    THEN BinanceStreams(symbols, channels)
    ELSE LET args == OKXArgs(symbols, channels) IN [k \in DOMAIN args |-> Sprintf(args[k])]

\* "params" / "args" of the frame resubscribe builds from the list it read
ResubscribeParams(v, subs) ==
    IF v = ExchangeBinance THEN subs ELSE OKXResubscribeArgs(subs)

\* the content of a slot of the list that append has not written yet: the empty string
Unwritten == <<>>

\* resubscribe reads b.subscriptions without b.mu.  While Subscribe is appending under
\* b.mu the read races with the write: it finds the list before the append, the list
\* after it, or the new length over slots not written yet
SeenSubscriptions ==
    IF appending = <<>>
    THEN {subscriptions}
    ELSE {subscriptions,
          subscriptions \o appending[1],
          subscriptions \o [k \in DOMAIN appending[1] |-> Unwritten]}

\* a goroutine: its position, the frame its resubscribe has built, and as history the
\* session its Connect opened, the streams registered at that moment, and whether its
\* read of the list met no append
Routine(pc, built, session, known, clean) ==
    [pc |-> pc, built |-> built, session |-> session, known |-> known, clean |-> clean]

Running == Routine("run", <<>>, 0, {}, TRUE)

\* handleReconnect has returned
Returning == Routine("return", <<>>, 0, {}, TRUE)

Done == Routine("done", <<>>, 0, {}, TRUE)

\* a frame of resubscribe, with the history of the goroutine that built it
ResentFrame(params, session, known, clean) ==
    [params |-> params, session |-> session, known |-> known, clean |-> clean]

NoFrame == ResentFrame(<<>>, 0, {}, TRUE)

\* pong timeouts in one run
MaxPongTimeouts == 1

Readers == {r \in DOMAIN routines : r[1] = "readMessages"}

Keepers == {r \in DOMAIN routines : r[1] = "keepAlive"}

Opened == {r[2] : r \in DOMAIN routines}

SetOf(seq) == {seq[k] : k \in DOMAIN seq}

\* Connect succeeded: the new connection replaces b.conn (the old one is not closed)
\* and its two goroutines start
Dialed(rs) ==
    LET s == Cardinality(Opened) + 1
    IN /\ conn' = s
       /\ connected' = TRUE
       /\ routines' = MapPut(MapPut(rs, <<"readMessages", s>>, Running),
                             <<"keepAlive", s>>, Running)

AdapterInit ==
    /\ HubInit /\ MergerIdle /\ PipeIdle /\ ProcIdle
    /\ venue \in Venues
    /\ conn = 0
    /\ connected = FALSE
    /\ subscriptions = <<>>
    /\ appending = <<>>
    /\ routines = EmptyMap
    /\ registered = {}
    /\ resent = NoFrame
    /\ subscribeCalls = 0
    /\ sessions = EmptyMap
    /\ reconnect = TRUE
    /\ closeChan = "open"
    /\ panicked = FALSE
    /\ attempts = [failures |-> 0, after |-> 0, wait |-> 0]
    /\ dispatched = 0
    /\ handler = FALSE
    /\ inbound = Nil
    /\ emitted = Nil
    /\ clock = 0
    /\ lastPong = 0
    /\ keeper = Nil
    /\ lastOp = "init"

\* what the steps of this specification leave alone
adapterRest == <<sessionVars, frameVars, beatVars, hubVars, mergerVars, pipeVars, procVars>>

\* Connect as the collector calls it at start; a failed dial changes nothing
Connect ==
    /\ conn = 0
    /\ Dialed(routines)
    /\ lastOp' = "Connect"
    /\ resent' = NoFrame
    /\ UNCHANGED <<venue, subscriptions, appending, registered, subscribeCalls,
                   adapterRest>>

\* Subscribe up to the write of the frame, which succeeds or fails
SubscribeWrite(symbols, channels) ==
    /\ subscribeCalls < MaxSubscribes
    /\ conn # 0
    /\ appending = <<>>
    /\ subscribeCalls' = subscribeCalls + 1
    /\ resent' = NoFrame
    /\ IF ~connected
       THEN /\ lastOp' = "SubscribeNotConnected"
            /\ UNCHANGED <<registered, appending>>
       ELSE \E ok \in BOOLEAN :
              IF ok
              THEN /\ registered' = registered \cup
                                        SetOf(SubscribeParams(venue, symbols, channels))
                   /\ appending' = <<SubscribeSaved(venue, symbols, channels)>>
                   /\ lastOp' = "SubscribeWrite"
              ELSE /\ lastOp' = "SubscribeFailed"
                   /\ UNCHANGED <<registered, appending>>
    /\ UNCHANGED <<venue, conn, connected, subscriptions, routines, adapterRest>>

\* the append that ends a successful Subscribe, and the release of b.mu
SubscribeAppend ==
    /\ appending # <<>>
    /\ subscriptions' = subscriptions \o appending[1]
    /\ appending' = <<>>
    /\ lastOp' = "Subscribe"
    /\ resent' = NoFrame
    /\ UNCHANGED <<venue, conn, connected, routines, registered, subscribeCalls,
                   adapterRest>>

SetRoutine(r, v) == routines' = [routines EXCEPT ![r] = v]

routineRest == <<venue, conn, connected, subscriptions, appending, registered,
                 subscribeCalls, adapterRest>>

\* handleReconnect: the loop sleeps and calls Connect until a call succeeds, after which
\* resubscribe is next, or until MaxRetries calls have failed
handleReconnect(r, failures) ==
    IF failures < MaxRetries
    THEN /\ appending = <<>>
         /\ Cardinality(Opened) < MaxSessions
         /\ Dialed([routines EXCEPT ![r] = [@ EXCEPT !.pc = "resubscribe",
                                                     !.session = Cardinality(Opened) + 1,
                                                     !.known = registered]])
         /\ lastOp' = "Reconnected"
    ELSE /\ SetRoutine(r, Returning)
         /\ lastOp' = "GaveUp"
         /\ UNCHANGED <<conn, connected>>

reconnectRest == <<venue, subscriptions, appending, registered, subscribeCalls, adapterRest>>

\* readMessages: ReadMessage returns an error and b.reconnect is set
ReadError(r) ==
    /\ r \in Readers
    /\ routines[r].pc = "run"
    /\ \E failures \in 0..MaxRetries : handleReconnect(r, failures)
    /\ resent' = NoFrame
    /\ UNCHANGED reconnectRest

\* keepAlive: a tick finds the adapter connected and the last pong older than 60 s
PongTimeout(r) ==
    /\ r \in Keepers
    /\ routines[r].pc = "run"
    /\ connected
    /\ Cardinality({k \in Keepers : routines[k].pc # "run"}) < MaxPongTimeouts
    /\ \E failures \in 0..MaxRetries : handleReconnect(r, failures)
    /\ resent' = NoFrame
    /\ UNCHANGED reconnectRest

\* resubscribe up to the frame it builds; nothing is sent for an empty list
ResubscribeRead(r) ==
    /\ routines[r].pc = "resubscribe"
    /\ \E seen \in SeenSubscriptions :
         SetRoutine(r, IF Len(seen) = 0
                       THEN Returning
                       ELSE [routines[r] EXCEPT !.pc = "write",
                                                !.built = ResubscribeParams(venue, seen),
                                                !.clean = (appending = <<>>)])
    /\ lastOp' = "ResubscribeRead"
    /\ resent' = NoFrame
    /\ UNCHANGED routineRest

\* resubscribe: the write of the frame on b.conn under b.mu; a failure is logged only
ResubscribeWrite(r) ==
    /\ routines[r].pc = "write"
    /\ appending = <<>>
    /\ \E ok \in BOOLEAN :
         /\ resent' = IF ok
                       THEN ResentFrame(routines[r].built, routines[r].session,
                                        routines[r].known, routines[r].clean)
                       ELSE NoFrame
         /\ lastOp' = IF ok THEN "resubscribe" ELSE "ResubscribeFailed"
    /\ SetRoutine(r, Returning)
    /\ UNCHANGED routineRest

\* handleReconnect has returned: keepAlive returns, and readMessages returns through
\* its deferred function, which clears b.connected under b.mu
Return(r) ==
    /\ routines[r].pc = "return"
    /\ appending = <<>>
    /\ connected' = (IF r \in Readers THEN FALSE ELSE connected)
    /\ SetRoutine(r, Done)
    /\ lastOp' = "Return"
    /\ resent' = NoFrame
    /\ UNCHANGED <<venue, conn, subscriptions, appending, registered, subscribeCalls,
                   adapterRest>>

AdapterNext ==
    \/ Connect
    \/ \E in \in SubscribeInputs : SubscribeWrite(in.symbols, in.channels)
    \/ SubscribeAppend
    \/ \E r \in DOMAIN routines : ReadError(r)
    \/ \E r \in DOMAIN routines : PongTimeout(r)
    \/ \E r \in DOMAIN routines : ResubscribeRead(r)
    \/ \E r \in DOMAIN routines : ResubscribeWrite(r)
    \/ \E r \in DOMAIN routines : Return(r)

SpecAdapter == AdapterInit /\ [][AdapterNext]_vars

\* C20: the frame resubscribe sends after a reconnect lists no stream that no earlier
\* Subscribe call has written (none added), and it lists every stream the Subscribe calls
\* had written when the reconnect opened its session (none missing)
C20_ResubscribeExact ==
    /\ SetOf(resent.params) \subseteq registered
    /\ resent.known \subseteq SetOf(resent.params)

\* a frame resubscribe built from a read that met no append in progress is exact
ResubscribeExactWithoutRace ==
    resent.clean =>
        /\ SetOf(resent.params) \subseteq registered
        /\ resent.known \subseteq SetOf(resent.params)

\* the second reconnect has resent the streams of two Subscribe calls
ResubscribedTwice ==
    /\ lastOp = "resubscribe"
    /\ resent.session = MaxSessions
    /\ Cardinality(resent.known) > 2


-----------------------------------------------------------------------------
(* The connection of a venue adapter, step by step: Connect, the failure of a
   transport, readMessages and keepAlive, the turns of handleReconnect's loop,
   resubscribe, and Close.  Subscribe is one step here (the specification above
   follows the subscription list; this one follows the sessions), and every call
   of Subscribe asks for the same streams. *)

\* reconnectConf.InitialDelay, in seconds
InitialDelay == 1

\* reconnectConf.Multiplier
Multiplier == 2

\* reconnectConf.MaxDelay, in seconds (60 in NewBinanceAdapter and NewOKXAdapter)
MaxDelay == 3

\* sessions the adapter opens in one run of this specification
MaxOpened == 2

\* a session: its transport works; a frame of Subscribe has been written on it; the
\* frame of resubscribe has been written on it; it was opened by a reconnect that
\* found a saved subscription list
Session(up, asked, resentOn, owed) ==
    [up |-> up, asked |-> asked, resent |-> resentOn, owed |-> owed]

\* a goroutine of this specification: position, and the retries and delay of its
\* handleReconnect
Task(pc, retries, delay) == [pc |-> pc, retries |-> retries, delay |-> delay]

TaskRunning == Task("run", 0, 0)

TaskReturning == Task("return", 0, 0)

TaskDone == Task("done", 0, 0)

\* history of the Connect calls of handleReconnect: how many have failed in a row
\* (counted up to MaxRetries), how many had when the last step called Connect, and
\* how long that step had slept before (0: the last step did not call Connect)
Attempt(failures, after, wait) ==
    [failures |-> IF failures > MaxRetries THEN MaxRetries ELSE failures,
     after |-> after, wait |-> wait]

\* the streams every Subscribe of this specification asks for
SessionStreams == BinanceStreams(<<(<<"BTC", "USDT">>)>>, <<DataTypeTrade>>)

SessionInit ==
    /\ HubInit /\ MergerIdle /\ PipeIdle /\ ProcIdle /\ AdapterIdle
    /\ lastOp = "init"

sessionRest == <<venue, appending, registered, resent, frameVars, beatVars, hubVars, mergerVars, pipeVars,
                 procVars>>

\* Connect succeeded: a new session, in place of b.conn, with its two goroutines
Open(rs) ==
    LET s == Cardinality(DOMAIN sessions) + 1
    IN /\ conn' = s
       /\ connected' = TRUE
       /\ sessions' = MapPut(sessions, s, Session(TRUE, FALSE, FALSE, conn # 0 /\ subscriptions # <<>>))
       /\ routines' = MapPut(MapPut(rs, <<"readMessages", s>>, TaskRunning),
                             <<"keepAlive", s>>, TaskRunning)

\* the collector's Connect at start
SessionConnect ==
    /\ ~panicked
    /\ conn = 0
    /\ closeChan = "open"
    /\ Open(routines)
    /\ lastOp' = "Connect"
    /\ attempts' = Attempt(attempts.failures, 0, 0)
    /\ dispatched' = 0
    /\ UNCHANGED <<subscriptions, subscribeCalls, reconnect, closeChan, panicked, sessionRest>>

\* Subscribe: refused when not connected, else the frame is written on b.conn and, if
\* the write succeeded, the streams are saved
SessionSubscribe ==
    /\ ~panicked
    /\ conn # 0
    /\ subscribeCalls < MaxSubscribes
    /\ subscribeCalls' = subscribeCalls + 1
    /\ IF ~connected
       THEN /\ lastOp' = "SubscribeNotConnected"
            /\ UNCHANGED <<subscriptions, sessions>>
       ELSE \E ok \in (IF sessions[conn].up THEN {TRUE} ELSE BOOLEAN) :
              IF ok
              THEN /\ subscriptions' = subscriptions \o SessionStreams
                   /\ sessions' = [sessions EXCEPT ![conn].asked = TRUE]
                   /\ lastOp' = "Subscribe"
              ELSE /\ lastOp' = "SubscribeFailed"
                   /\ UNCHANGED <<subscriptions, sessions>>
    /\ attempts' = Attempt(attempts.failures, 0, 0)
    /\ dispatched' = 0
    /\ UNCHANGED <<conn, connected, routines, reconnect, closeChan, panicked, sessionRest>>

\* the transport of a session fails
Fail(s) ==
    /\ ~panicked
    /\ sessions[s].up
    /\ sessions' = [sessions EXCEPT ![s].up = FALSE]
    /\ lastOp' = "Fail"
    /\ attempts' = Attempt(attempts.failures, 0, 0)
    /\ dispatched' = 0
    /\ UNCHANGED <<conn, connected, subscriptions, subscribeCalls, routines, reconnect,
                   closeChan, panicked, sessionRest>>

SetTask(r, v) == routines' = [routines EXCEPT ![r] = v]

taskRest == <<conn, connected, subscriptions, subscribeCalls, sessions, reconnect, closeChan,
              panicked, sessionRest>>

\* readMessages: ReadMessage returns a frame of a stream asked for on this session,
\* and handleMessage gives its record to the handler
Dispatch(r) ==
    /\ ~panicked
    /\ r \in Readers
    /\ routines[r].pc = "run"
    /\ sessions[r[2]].up
    /\ sessions[r[2]].asked \/ sessions[r[2]].resent
    /\ dispatched' = r[2]
    /\ lastOp' = "Dispatch"
    /\ attempts' = Attempt(attempts.failures, 0, 0)
    /\ UNCHANGED <<routines, taskRest>>

\* readMessages: ReadMessage returns an error; handleReconnect begins if b.reconnect
\* is set, else the goroutine returns
ReaderError(r) ==
    /\ ~panicked
    /\ r \in Readers
    /\ routines[r].pc = "run"
    /\ ~sessions[r[2]].up
    /\ SetTask(r, IF reconnect THEN Task("sleep", 0, InitialDelay) ELSE TaskReturning)
    /\ lastOp' = "ReadError"
    /\ attempts' = Attempt(attempts.failures, 0, 0)
    /\ dispatched' = 0
    /\ UNCHANGED taskRest

\* readMessages: the select finds b.closeChan closed
ReaderClosed(r) ==
    /\ ~panicked
    /\ r \in Readers
    /\ routines[r].pc = "run"
    /\ closeChan = "closed"
    /\ SetTask(r, TaskReturning)
    /\ lastOp' = "ReaderClosed"
    /\ attempts' = Attempt(attempts.failures, 0, 0)
    /\ dispatched' = 0
    /\ UNCHANGED taskRest

\* keepAlive: the select finds b.closeChan closed
KeeperClosed(r) ==
    /\ ~panicked
    /\ r \in Keepers
    /\ routines[r].pc = "run"
    /\ closeChan = "closed"
    /\ SetTask(r, TaskDone)
    /\ lastOp' = "KeeperClosed"
    /\ attempts' = Attempt(attempts.failures, 0, 0)
    /\ dispatched' = 0
    /\ UNCHANGED taskRest

\* keepAlive: a tick finds the adapter connected and the last pong older than 60 s;
\* handleReconnect begins
HeartbeatTimeout(r) ==
    /\ ~panicked
    /\ r \in Keepers
    /\ routines[r].pc = "run"
    /\ closeChan = "open"
    /\ connected
    /\ Cardinality({k \in Keepers : routines[k].pc # "run"}) < MaxPongTimeouts
    /\ SetTask(r, Task("sleep", 0, InitialDelay))
    /\ lastOp' = "PongTimeout"
    /\ attempts' = Attempt(attempts.failures, 0, 0)
    /\ dispatched' = 0
    /\ UNCHANGED taskRest

\* delay_(n+1) = min(delay_n * Multiplier, MaxDelay)
NextDelay(delay) == IF delay * Multiplier > MaxDelay THEN MaxDelay ELSE delay * Multiplier

\* handleReconnect: one turn of the loop: Sleep(delay), then Connect.  After a Connect
\* that succeeded resubscribe is next; after one that failed the delay grows, and the
\* loop ends when the retries are used up
Turn(r) ==
    /\ ~panicked
    /\ routines[r].pc = "sleep"
    /\ routines[r].retries < MaxRetries
    /\ dispatched' = 0
    /\ \E ok \in BOOLEAN :
         IF ok
         THEN /\ Cardinality(DOMAIN sessions) < MaxOpened
              /\ Open([routines EXCEPT ![r] = Task("resubscribe", 0, 0)])
              /\ attempts' = Attempt(0, attempts.failures, routines[r].delay)
              /\ lastOp' = "Reconnected"
         ELSE /\ SetTask(r, IF routines[r].retries + 1 < MaxRetries
                            THEN Task("sleep", routines[r].retries + 1, NextDelay(routines[r].delay))
                            ELSE TaskReturning)
              /\ attempts' = Attempt(attempts.failures + 1, attempts.failures, routines[r].delay)
              /\ lastOp' = "ReconnectFailed"
              /\ UNCHANGED <<conn, connected, sessions>>
    /\ UNCHANGED <<subscriptions, subscribeCalls, reconnect, closeChan, panicked, sessionRest>>

\* resubscribe: nothing to send for an empty list; else the frame is written on b.conn,
\* and a failure is logged only
SessionResubscribe(r) ==
    /\ ~panicked
    /\ routines[r].pc = "resubscribe"
    /\ IF subscriptions = <<>>
       THEN /\ lastOp' = "ResubscribeNothing"
            /\ UNCHANGED sessions
       ELSE \E ok \in (IF sessions[conn].up THEN {TRUE} ELSE BOOLEAN) :
              /\ sessions' = [sessions EXCEPT ![conn].resent = @ \/ ok]
              /\ lastOp' = IF ok THEN "resubscribe" ELSE "ResubscribeFailed"
    /\ SetTask(r, TaskReturning)
    /\ attempts' = Attempt(attempts.failures, 0, 0)
    /\ dispatched' = 0
    /\ UNCHANGED <<conn, connected, subscriptions, subscribeCalls, reconnect, closeChan,
                   panicked, sessionRest>>

\* the goroutine returns: keepAlive after handleReconnect, readMessages through its
\* deferred function, which clears b.connected
TaskReturn(r) ==
    /\ ~panicked
    /\ routines[r].pc = "return"
    /\ connected' = (IF r \in Readers THEN FALSE ELSE connected)
    /\ SetTask(r, TaskDone)
    /\ lastOp' = "Return"
    /\ attempts' = Attempt(attempts.failures, 0, 0)
    /\ dispatched' = 0
    /\ UNCHANGED <<conn, subscriptions, subscribeCalls, sessions, reconnect, closeChan,
                   panicked, sessionRest>>

\* Close: b.reconnect is cleared and b.closeChan closed, which panics if it is closed
\* already; then b.conn, if there is one, is closed
Close ==
    /\ ~panicked
    /\ IF closeChan = "closed"
       THEN /\ panicked' = TRUE
            /\ lastOp' = "ClosePanic"
            /\ UNCHANGED <<closeChan, connected, sessions>>
       ELSE /\ closeChan' = "closed"
            /\ connected' = (IF conn # 0 THEN FALSE ELSE connected)
            /\ sessions' = IF conn # 0 THEN [sessions EXCEPT ![conn].up = FALSE] ELSE sessions
            /\ lastOp' = "Close"
            /\ UNCHANGED panicked
    /\ reconnect' = FALSE
    /\ attempts' = Attempt(attempts.failures, 0, 0)
    /\ dispatched' = 0
    /\ UNCHANGED <<conn, subscriptions, subscribeCalls, routines, sessionRest>>

SessionNext ==
    \/ SessionConnect
    \/ SessionSubscribe
    \/ \E s \in DOMAIN sessions : Fail(s)
    \/ \E r \in DOMAIN routines : Dispatch(r)
    \/ \E r \in DOMAIN routines : ReaderError(r)
    \/ \E r \in DOMAIN routines : ReaderClosed(r)
    \/ \E r \in DOMAIN routines : KeeperClosed(r)
    \/ \E r \in DOMAIN routines : HeartbeatTimeout(r)
    \/ \E r \in DOMAIN routines : Turn(r)
    \/ \E r \in DOMAIN routines : SessionResubscribe(r)
    \/ \E r \in DOMAIN routines : TaskReturn(r)
    \/ Close

SpecSession == SessionInit /\ [][SessionNext]_vars

\* C21: a record of a session that a reconnect opened with a saved subscription list is
\* given to the handler only after resubscribe has written its frame on that session
C21_ResentBeforeDispatch ==
    dispatched # 0 =>
        (sessions[dispatched].owed => sessions[dispatched].resent)

RECURSIVE Pow2(_)
Pow2(n) == IF n = 0 THEN 1 ELSE 2 * Pow2(n - 1)

\* the wait before the Connect call that follows n failed ones: 1, 2, 4, ... s, at most MaxDelay
ExpectedWait(n) == Min(InitialDelay * Pow2(n), MaxDelay)

\* C22: the adapter sleeps ExpectedWait(n) before the Connect call that follows n failed
\* calls in a row (n = 0 after a success), and calls Connect no more once MaxRetries
\* calls in a row have failed
C22_BackoffSchedule ==
    attempts.wait # 0 =>
        /\ attempts.after < MaxRetries
        /\ attempts.wait = ExpectedWait(attempts.after)

\* each run of handleReconnect by itself keeps the schedule
LoopBackoffSchedule ==
    \A r \in DOMAIN routines :
        routines[r].pc = "sleep" =>
            /\ routines[r].retries < MaxRetries
            /\ routines[r].delay = ExpectedWait(routines[r].retries)

\* a run of handleReconnect has reached its last turn with the delay at its cap
LoopAtCap ==
    \E r \in DOMAIN routines :
        /\ routines[r].pc = "sleep"
        /\ routines[r].retries = MaxRetries - 1
        /\ routines[r].delay = MaxDelay

\* IsConnected: the flag b.connected, read under the mutex
IsConnected == connected

\* C23: while the session in b.conn is up and the adapter has not been closed,
\* IsConnected returns true
C23_ConnectedWhileSessionUp ==
    (conn # 0 /\ sessions[conn].up /\ closeChan = "open") => IsConnected

\* the goroutines that are in their loop
InLoop(kind) == {r \in DOMAIN routines : r[1] = kind /\ routines[r].pc = "run"}

\* C24: at most one readMessages and at most one keepAlive goroutine is in its loop
C24_OneReaderOneKeeper ==
    /\ Cardinality(InLoop("readMessages")) <= 1
    /\ Cardinality(InLoop("keepAlive")) <= 1

\* C25: no call of Close panics
C25_CloseTwiceReturns == ~panicked

\* C26: once b.closeChan is closed no Connect call of handleReconnect opens a session
C26_NoSessionAfterClose == closeChan = "closed" => lastOp # "Reconnected"

-----------------------------------------------------------------------------
(* Inbound frames of the Binance adapter: handleMessage and its parse functions.
   A frame is what json.Unmarshal makes of it: whether it is a JSON object at all,
   and for the keys the code reads, whether the key is there and of which JSON type. *)

Absent == [kind |-> "absent", v |-> ""]
Str(v) == [kind |-> "string", v |-> v]
Num(v) == [kind |-> "number", v |-> v]
Obj == [kind |-> "object", v |-> ""]

EventTypes == {"24hrTicker", "depthUpdate", "trade", "kline"}

\* the values of a key read with a type assertion: missing, a string, a number
Scalars(text, digits) == {Absent, Str(text), Num(digits)}

NoFields == [i |-> Absent, t |-> Absent, T |-> Absent, n |-> Absent]

\* the object under "k" of a kline frame
KlineFields ==
    [i : Scalars("1m", "1"), t : Scalars("0", "0"), T : Scalars("59999", "59999"),
     n : Scalars("7", "7")]

NotJSON == [valid |-> FALSE, result |-> FALSE, e |-> Absent, s |-> Absent, k |-> Absent,
            fields |-> NoFields]

\* the frames that are not of type kline, and the kline frames with every shape of "k"
Frames ==
    {NotJSON} \cup
    {[valid |-> TRUE, result |-> res, e |-> e, s |-> sym, k |-> Absent, fields |-> NoFields] :
        res \in BOOLEAN,
        e \in {Absent, Num("1")} \cup {Str(t) : t \in (EventTypes \ {"kline"}) \cup {"aggTrade"}},
        sym \in Scalars("btcusdt", "1")} \cup
    {[valid |-> TRUE, result |-> res, e |-> Str("kline"), s |-> sym, k |-> k, fields |-> NoFields] :
        res \in BOOLEAN, sym \in Scalars("btcusdt", "1"), k \in {Absent, Str("x")}} \cup
    {[valid |-> TRUE, result |-> res, e |-> Str("kline"), s |-> sym, k |-> Obj, fields |-> fs] :
        res \in BOOLEAN, sym \in Scalars("btcusdt", "1"), fs \in KlineFields}

\* strings.ToUpper
ToUpper(str) == IF str = "btcusdt" THEN "BTCUSDT" ELSE str

Dropped == [outcome |-> "drop", record |-> Nil]
Panic == [outcome |-> "panic", record |-> Nil]
Emitted(type, symbol, interval) ==
    [outcome |-> "record",
     record |-> [exchange |-> "binance", symbol |-> symbol, type |-> type,
                 interval |-> interval]]

\* parseTicker, parseDepth, parseTrade: every key is read through parseFloat,
\* parsePriceLevels or a checked type assertion
parseTicker(f, symbol) == Emitted("ticker", symbol, "")
parseDepth(f, symbol) == Emitted("depth", symbol, "")
parseTrade(f, symbol) == Emitted("trade", symbol, "")

\* parseKline: raw["k"], k["i"], k["t"], k["T"] and k["n"] are read with unchecked
\* type assertions
parseKline(f, symbol) ==
    IF f.k.kind # "object" THEN Panic
    ELSE IF f.fields.i.kind # "string" THEN Panic
    ELSE IF f.fields.t.kind # "number" THEN Panic
    ELSE IF f.fields.T.kind # "number" THEN Panic
    ELSE IF f.fields.n.kind # "number" THEN Panic
    ELSE Emitted("kline", symbol, f.fields.i.v)

handleMessage(set, f) ==
    IF ~set THEN Dropped
    ELSE IF ~f.valid THEN Dropped
    ELSE IF f.result THEN Dropped
    ELSE IF f.e.kind # "string" THEN Dropped
    ELSE IF f.s.kind # "string" THEN Panic
    ELSE LET symbol == ToUpper(f.s.v)
         IN CASE f.e.v = "24hrTicker" -> parseTicker(f, symbol)
              [] f.e.v = "depthUpdate" -> parseDepth(f, symbol)
              [] f.e.v = "trade" -> parseTrade(f, symbol)
              [] f.e.v = "kline" -> parseKline(f, symbol)
              [] OTHER -> Dropped

FrameInit ==
    /\ HubInit /\ MergerIdle /\ PipeIdle /\ ProcIdle /\ AdapterIdle
    /\ lastOp = "init"

frameRest == <<venue, conn, connected, subscriptions, appending, routines, registered, resent,
               subscribeCalls, sessions, reconnect, closeChan, attempts, dispatched,
               beatVars, hubVars, mergerVars, pipeVars, procVars>>

\* OnMessage: the collector registers its handler
OnMessage ==
    /\ ~panicked
    /\ ~handler
    /\ handler' = TRUE
    /\ lastOp' = "OnMessage"
    /\ UNCHANGED <<inbound, emitted, panicked, frameRest>>

\* readMessages: ReadMessage returns a frame and handleMessage is called with it; a
\* panic in it ends the process, as nothing recovers
HandleMessage(f) ==
    /\ ~panicked
    /\ inbound' = f
    /\ emitted' = handleMessage(handler, f).record
    /\ panicked' = (handleMessage(handler, f).outcome = "panic")
    /\ lastOp' = "handleMessage"
    /\ UNCHANGED <<handler, frameRest>>

FrameNext ==
    \/ OnMessage
    \/ \E f \in Frames : HandleMessage(f)

SpecFrame == FrameInit /\ [][FrameNext]_vars

\* C27: whatever the frame, handleMessage returns, having given one record to the
\* handler or none, and the reader goes on
C27_NoFrameCrashes == lastOp = "handleMessage" => ~panicked

\* a frame that has "s" as a string and, if it is a kline, the kline object with "i" a
\* string and "t", "T", "n" numbers
WellTyped(f) ==
    /\ f.valid => (f.e.kind = "string" /\ ~f.result => f.s.kind = "string")
    /\ (f.valid /\ f.e = Str("kline") /\ ~f.result) =>
          /\ f.k.kind = "object"
          /\ f.fields.i.kind = "string"
          /\ f.fields.t.kind = "number"
          /\ f.fields.T.kind = "number"
          /\ f.fields.n.kind = "number"

\* frames of the expected types never crash the reader
WellTypedFramesHandled ==
    (lastOp = "handleMessage" /\ WellTyped(inbound)) => ~panicked

\* a well-typed kline frame has become a record
KlineEmitted == lastOp = "handleMessage" /\ emitted # Nil /\ emitted.type = "kline"

-----------------------------------------------------------------------------
(* The consumer and messages that fail to parse *)

\* the committed messages of a topic whose value parses
Parsed(topic) ==
    {<<part, i>> \in Partitions \X (1..(MaxRecords + MaxForeign)) :
        /\ i <= offsets[topic][part]
        /\ ~ParseError(logs[topic][part][i].Value)}

\* C28: the handler of a topic has been called once for each committed message whose
\* value parses, with the parsed record, and not for the others; in particular the
\* messages after one that failed to parse are handled
C28_UnparsableSkipped ==
    \A topic \in Topics :
        /\ Len(handled[topic]) = Cardinality(Parsed(topic))
        /\ \A n \in 1..Len(handled[topic]) :
              \E at \in Parsed(topic) :
                  handled[topic][n] = FromJSONBytes(logs[topic][at[1]][at[2]].Value)

\* the consumer has committed a message that failed to parse and handled one after it
HandledAfterUnparsable ==
    \E topic \in Topics, part \in Partitions :
        \E i, j \in 1..offsets[topic][part] :
            /\ i < j
            /\ ParseError(logs[topic][part][i].Value)
            /\ ~ParseError(logs[topic][part][j].Value)
            /\ \E n \in 1..Len(handled[topic]) :
                  handled[topic][n] = FromJSONBytes(logs[topic][part][j].Value)

-----------------------------------------------------------------------------
(* SpecStore: the processor's two handlers side by side, each call with the  *)
(* store up or down.                                                         *)

\* number of records handled, trades and depth records together
MaxHandled == 3

\* depth records of at most one bid
StoreDepths == {depth \in DepthRecords : Len(depth.Bids) <= 1}

StoreInit ==
    /\ HubInit /\ MergerIdle /\ PipeIdle /\ ProcIdle /\ AdapterIdle
    /\ lastOp = "init"

StoreTrade(trade, up) ==
    /\ tradeCount + depthCount < MaxHandled
    /\ HandleTradeCall(trade, up)

StoreDepth(depth, tie, up) ==
    /\ tradeCount + depthCount < MaxHandled
    /\ HandleDepthCall(depth, tie, up)

StoreNext ==
    \/ \E trade \in KlineTrades, up \in BOOLEAN : StoreTrade(trade, up)
    \/ \E depth \in StoreDepths, tie \in TieOrders, up \in BOOLEAN : StoreDepth(depth, tie, up)

SpecStore == StoreInit /\ [][StoreNext]_vars

\* what a call of HandleTrade leaves when every write succeeds
TradeSaved == HandleTrade(aggregators, klines, lastIn', zone, TRUE)

\* what a call of UpdateDepth leaves when the write succeeds
DepthSaved(tie) == UpdateDepth(lastIn'.Symbol, lastIn', depths, tie, TRUE)

\* C29: a call of HandleTrade or HandleDepth leaves the open candles and the order
\* book as a call whose store writes succeed leaves them, whether or not its writes
\* succeeded, and the store as that call leaves it or untouched: a write that failed
\* earlier is not made later
C29_FailedWriteLeavesMemory ==
    [][/\ lastOp' = "HandleTrade" =>
            /\ aggregators' = TradeSaved.aggregators
            /\ klines' \in {klines, TradeSaved.klines}
       /\ lastOp' = "HandleDepth" =>
            \E tie \in TieOrders :
                /\ managers' = MapPut(managers, lastIn'.Symbol, DepthSaved(tie).manager)
                /\ depths' \in {depths, DepthSaved(tie).store}]_vars

\* a candle has been closed and a depth record handled, and the store has neither
\* the candle nor the book: both writes failed
WritesFailed ==
    /\ \E key \in DOMAIN aggregators :
          /\ aggregators[key].TradeNum < tradeCount
          /\ key \notin DOMAIN klines
    /\ \E symbol \in DOMAIN managers : symbol \notin DOMAIN depths

-----------------------------------------------------------------------------
(* The hub and frames that find the send queue full *)

\* the loop of broadcastToChannel visits client c and finds its queue full
BroadcastFindsFull(c) ==
    /\ hubpc = "bcast"
    /\ c \in bcTodo
    /\ c \notin bcTodo'
    /\ ~closed[c]
    /\ ~HasRoom(send[c])

\* the reader of client c ends handleSubscribe / handleUnsubscribe with a sendResponse
\* that finds the queue full
ResponseFindsFull(c) ==
    /\ readerpc[c] = "respond"
    /\ readerpc'[c] = "run"
    /\ ~closed[c]
    /\ ~HasRoom(send[c])

\* C30: a step in which a market update or a response for a client finds the client's
\* send queue full puts the client on h.unregister
C30_FullQueueUnregisters ==
    [][\A c \in Clients :
          (BroadcastFindsFull(c) \/ ResponseFindsFull(c))
              => unregister' = Append(unregister, c)]_vars

\* the broadcast loop does so
BroadcastFullUnregisters ==
    [][\A c \in Clients :
          BroadcastFindsFull(c) => unregister' = Append(unregister, c)]_vars

-----------------------------------------------------------------------------
(* The limit on a session's subscriptions *)

\* constants.MaxSubscriptionsPerConn (20 in the code), scaled down to fewer than the
\* channels a session may ask for
MaxSubscriptionsPerConn == 2

\* the channels of a session in the index
SubscriptionsOf(c) ==
    IF c \in DOMAIN clientSubscriptions THEN clientSubscriptions[c] ELSE {}

\* C31: no session holds more than MaxSubscriptionsPerConn channels
C31_SubscriptionLimit ==
    \A c \in Clients : Cardinality(SubscriptionsOf(c)) <= MaxSubscriptionsPerConn

-----------------------------------------------------------------------------
(* SpecRoute: from the store's Publish to the hub's subscribers.  Channel names *)
(* are sequences of their parts, so that the order of the parts is kept.       *)

\* constants.RedisChannelMarket
RedisChannelMarket == "market:"

RouteKinds == {DataTypeTicker, DataTypeDepth, DataTypeTrade}

RouteSymbols == {"BTCUSDT"}

\* the channel and symbol of the subscribe requests, for tickers: the kind with the
\* symbol, and the symbol with the kind
RouteRequests ==
    {<<kind, symbol>> : kind \in {DataTypeTicker}, symbol \in RouteSymbols}
        \cup {<<symbol, kind>> : kind \in {DataTypeTicker}, symbol \in RouteSymbols}

\* fmt.Sprintf("%s%s:%s", constants.RedisChannelMarket, symbol, dataType) of SaveTicker,
\* SaveDepth and SaveTrade
PublishChannel(symbol, dataType) == <<RedisChannelMarket, symbol, ":", dataType>>

\* strings.TrimPrefix
TrimPrefix(str, prefix) == IF str # <<>> /\ str[1] = prefix THEN Tail(str) ELSE str

\* Client.buildChannelName
buildChannelName(channel, symbol) ==
    IF symbol # "" THEN <<channel, ":", symbol>> ELSE <<channel>>

\* Broadcaster.handleRedisMessage: the channel Hub.Broadcast is called with
handleRedisMessage(channel) == TrimPrefix(channel, RedisChannelMarket)

RouteInit == HubInit /\ MergerIdle /\ PipeIdle /\ ProcIdle /\ AdapterIdle /\ lastOp = "init"

\* RedisStorage.SaveTicker / SaveDepth / SaveTrade: the write, and if it succeeded the
\* Publish, which the bridge receives and hands to Hub.Broadcast
Save(kind, symbol, up) ==
    IF up
    THEN BridgePublish(handleRedisMessage(PublishChannel(symbol, kind)),
                       [type |-> kind, symbol |-> symbol])
    ELSE UNCHANGED vars

RouteNext ==
    \/ \E c \in Clients : ServeHTTP(c)
    \/ HubRegister
    \/ \E c \in Clients, req \in RouteRequests :
          ReaderSubscribe(c, buildChannelName(req[1], req[2]))
    \/ \E c \in Clients : ReaderRespond(c)
    \/ \E c \in Clients : WriterWrite(c)
    \/ \E kind \in RouteKinds, symbol \in RouteSymbols, up \in BOOLEAN : Save(kind, symbol, up)
    \/ HubBroadcastBegin
    \/ \E c \in Clients : HubBroadcastStep(c)

SpecRoute == RouteInit /\ [][RouteNext]_vars

\* the hub loop takes a message from h.broadcast
TakesMessage == hubpc = "select" /\ broadcast # <<>> /\ broadcast' = Tail(broadcast)

\* the clients that subscribed with the kind and the symbol of the record in the message
AskedFor(message) ==
    {c \in Clients :
        buildChannelName(message.data.type, message.data.symbol) \in SubscriptionsOf(c)}

\* C32: when the hub takes the update of a record saved for symbol S, the clients it sets
\* out to enqueue it to include every client subscribed with the record's kind and S
C32_SavedReachesSubscribers ==
    [][TakesMessage =>
          \A c \in AskedFor(Head(broadcast)) : hubpc' = "bcast" /\ c \in bcTodo']_vars

\* the updates do reach the clients subscribed to the name the store publishes under:
\* the symbol, a colon, the kind
SavedReachesSwapped ==
    [][TakesMessage =>
          \A c \in Clients :
              <<Head(broadcast).data.symbol, ":", Head(broadcast).data.type>>
                      \in SubscriptionsOf(c)
                  => hubpc' = "bcast" /\ c \in bcTodo']_vars

-----------------------------------------------------------------------------
(* SpecPump: one session's send queue, the senders' non-blocking sends, the hub's *)
(* close of the queue, and writePump step by step.                               *)

\* capacity of client.send in this specification (256 in the code), scaled down
QueueCap == 2

\* number of frames the senders offer to a queue
MaxFrames == 3

\* the n-th frame offered to a queue
DataOf(n) == [type |-> "data", seq |-> n]

\* websocket.CloseMessage
CloseFrame == [type |-> "close", seq |-> 0]

PumpInit == HubInit /\ MergerIdle /\ PipeIdle /\ ProcIdle /\ AdapterIdle /\ lastOp = "init"

pumpRest == <<channelSubscribers, clientSubscriptions, clients, register, unregister,
              broadcast, stopChan, hubpc, bcMsg, bcTodo, readerpc, resp, crashed, mark,
              lastOp, mergerVars, pipeVars, procVars, adapterVars>>

\* Client.Start: go c.writePump()
PumpStart(c) ==
    /\ writerpc[c] = "none"
    /\ writerpc' = [writerpc EXCEPT ![c] = "run"]
    /\ UNCHANGED <<send, closed, written, queued, batch, pumpRest>>

\* `select { case c.send <- frame: default: }` that finds room, by the hub's broadcast,
\* the reader's replies or ServeHTTP
PumpEnqueue(c) ==
    /\ ~closed[c]
    /\ Len(queued[c]) < MaxFrames
    /\ Len(send[c]) < QueueCap
    /\ send' = [send EXCEPT ![c] = Append(@, DataOf(Len(queued[c]) + 1))]
    /\ queued' = [queued EXCEPT ![c] = Append(@, DataOf(Len(queued[c]) + 1))]
    /\ UNCHANGED <<closed, writerpc, written, batch, pumpRest>>

\* Hub.Run, unregister case (or closeAllClients): close(client.send)
PumpClose(c) ==
    /\ ~closed[c]
    /\ closed' = [closed EXCEPT ![c] = TRUE]
    /\ UNCHANGED <<send, writerpc, written, queued, batch, pumpRest>>

\* a writer that sends the close frame as soon as it finds the queue closed
PumpReceiveHasty(c) ==
    /\ writerpc[c] = "run"
    /\ send[c] # <<>> \/ closed[c]
    /\ IF ~closed[c]
       THEN /\ written' = [written EXCEPT ![c] = Append(@, Head(send[c]))]
            /\ send' = [send EXCEPT ![c] = Tail(@)]
            /\ writerpc' = [writerpc EXCEPT ![c] = "len"]
       ELSE /\ written' = [written EXCEPT ![c] = Append(@, CloseFrame)]
            /\ writerpc' = [writerpc EXCEPT ![c] = "done"]
            /\ UNCHANGED send
    /\ UNCHANGED <<closed, queued, batch, pumpRest>>

\* writePump: case message, ok := <-c.send.  With a frame: NextWriter and the first
\* Write.  With the queue closed and empty: the close frame, and return
PumpReceive(c) ==
    /\ writerpc[c] = "run"
    /\ send[c] # <<>> \/ closed[c]
    /\ IF send[c] # <<>>
       THEN /\ written' = [written EXCEPT ![c] = Append(@, Head(send[c]))]
            /\ send' = [send EXCEPT ![c] = Tail(@)]
            /\ writerpc' = [writerpc EXCEPT ![c] = "len"]
       ELSE /\ written' = [written EXCEPT ![c] = Append(@, CloseFrame)]
            /\ writerpc' = [writerpc EXCEPT ![c] = "done"]
            /\ UNCHANGED send
    /\ UNCHANGED <<closed, queued, batch, pumpRest>>

\* writePump: n := len(c.send)
PumpLen(c) ==
    /\ writerpc[c] = "len"
    /\ batch' = [batch EXCEPT ![c] = Len(send[c])]
    /\ writerpc' = [writerpc EXCEPT ![c] = "batch"]
    /\ UNCHANGED <<send, closed, written, queued, pumpRest>>

\* writePump: one turn of the batch loop, or w.Close() after its last turn
PumpBatch(c) ==
    /\ writerpc[c] = "batch"
    /\ IF batch[c] > 0
       THEN /\ written' = [written EXCEPT ![c] = Append(@, Head(send[c]))]
            /\ send' = [send EXCEPT ![c] = Tail(@)]
            /\ batch' = [batch EXCEPT ![c] = @ - 1]
            /\ UNCHANGED writerpc
       ELSE /\ writerpc' = [writerpc EXCEPT ![c] = "run"]
            /\ UNCHANGED <<written, send, batch>>
    /\ UNCHANGED <<closed, queued, pumpRest>>

\* writePump: NextWriter, w.Close() or the ping of the ticker fails; return
PumpWriteFails(c) ==
    /\ writerpc[c] \in {"run", "len", "batch"}
    /\ writerpc' = [writerpc EXCEPT ![c] = "failed"]
    /\ UNCHANGED <<send, closed, written, queued, batch, pumpRest>>

PumpNext ==
    \/ \E c \in Clients : PumpStart(c)
    \/ \E c \in Clients : PumpEnqueue(c)
    \/ \E c \in Clients : PumpClose(c)
    \/ \E c \in Clients : PumpReceive(c)
    \/ \E c \in Clients : PumpLen(c)
    \/ \E c \in Clients : PumpBatch(c)
    \/ \E c \in Clients : PumpWriteFails(c)

SpecPump == PumpInit /\ [][PumpNext]_vars

\* the writer goroutine, once started, is scheduled again and again
PumpFairness ==
    \A c \in Clients :
        /\ WF_vars(PumpStart(c))
        /\ WF_vars(PumpReceive(c))
        /\ WF_vars(PumpLen(c))
        /\ WF_vars(PumpBatch(c))

SpecPumpFair == SpecPump /\ PumpFairness

\* every frame that entered the queue, in the order of entry, then the close frame
Drained(c) == written[c] = queued[c] \o <<CloseFrame>>

\* what has been written is a beginning of Drained
InOrder(c) ==
    \E n \in 0..(Len(queued[c]) + 1) :
        written[c] = SubSeq(queued[c] \o <<CloseFrame>>, 1, n)

\* C33: while no write has failed, the frames written are the frames that entered the
\* queue, in their order, with the close frame after all of them; and once the queue is
\* closed the writer gets there, unless a write fails
C33_DrainThenClose ==
    /\ [](\A c \in Clients : writerpc[c] # "failed" => InOrder(c))
    /\ \A c \in Clients : closed[c] ~> (Drained(c) \/ writerpc[c] = "failed")

\* a writer has written all the frames offered and then the close frame
DrainedTwo ==
    \E c \in Clients :
        /\ Drained(c)
        /\ Len(queued[c]) = MaxFrames
        /\ Len(written[c]) = MaxFrames + 1

-----------------------------------------------------------------------------
(* Sends on a closed send queue *)

\* a step that panics, and not in close(client.send): the unregister case and
\* closeAllClients, which close queues, change h.clients or end the loop
SendOnClosed ==
    /\ ~crashed
    /\ crashed'
    /\ clients' = clients
    /\ hubpc' = hubpc

\* C34: no step is a send on a queue that the hub has closed
C34_NoSendOnClosed == [][~SendOnClosed]_vars

-----------------------------------------------------------------------------
(* Sessions whose reader has returned *)

\* the hub will take the session out of h.clients: an unregister request for it is
\* pending, or a broadcast can still find its queue full, the session being in the
\* index or among the clients the loop is visiting
WillBeUnregistered(c) ==
    \/ \E i \in DOMAIN unregister : unregister[i] = c
    \/ InIndex(c)
    \/ hubpc = "bcast" /\ c \in bcTodo

\* C35: while the hub loop runs, a session whose reader has returned is out of
\* h.clients or on its way out
C35_TerminatedReaderLeaves ==
    \A c \in Clients :
        (readerpc[c] = "done" /\ hubpc # "stopped" /\ ~crashed)
            => (c \notin clients \/ WillBeUnregistered(c))

-----------------------------------------------------------------------------
(* SpecReplay: trades of one symbol replayed to the candle handler with the *)
(* store up at every call, their timestamps in any order.                   *)

\* number of trades replayed
MaxReplay == 5

\* instants of two minutes of one day and of the next day
ReplayStamps == {Day, Day + Minute, 2 * Day}

ReplayTrades ==
    {[Symbol |-> KlineSymbol, TradeID |-> "t", Price |-> 1, Amount |-> 1,
      Side |-> "buy", Timestamp |-> ts] : ts \in ReplayStamps}

\* the trade topic's handler passing a trade to KlineHandler.HandleTrade, every
\* SaveKline succeeding
ReplayTrade(trade) ==
    /\ tradeCount < MaxReplay
    /\ LET r == HandleTrade(aggregators, klines, trade, zone, TRUE) IN
         /\ aggregators' = r.aggregators
         /\ klines' = r.klines
    /\ tradeCount' = tradeCount + 1
    /\ lastIn' = trade
    /\ lastOp' = "HandleTrade"
    /\ UNCHANGED <<zone, managers, depths, handed, depthCount, symbolConfigs,
                   internalData, externalData, now, ret, hubVars, pipeVars, adapterVars>>

ReplayNext == \E trade \in ReplayTrades : ReplayTrade(trade)

SpecReplay == KlineInit /\ [][ReplayNext]_vars

\* C36: the persisted list of an interval never holds two candles with the same
\* open_time
C36_OpenTimesDistinct ==
    \A key \in DOMAIN klines :
        \A i, j \in DOMAIN klines[key] :
            klines[key][i].open_time = klines[key][j].open_time => i = j

-----------------------------------------------------------------------------
(* SpecStale: the hybrid symbol fed tickers, books and trades of both sides *)
(* while time passes, every ticker and book carrying in its Timestamp the   *)
(* instant it is received, so that a cached ticker or book tells its age.   *)

\* the records received at instant t: the internal receiver passes a Ticker value
\* (handleTicker) and pointers to books and trades, the venue adapters pointers
StampedInputs(t) ==
    {MarketData("internal", FnSymbol, DataTypeTicker, SourceInternal, t,
                Val("Ticker", [TickerOf(FnSymbol, 1) EXCEPT !.Timestamp = t])),
     MarketData("internal", FnSymbol, DataTypeDepth, SourceInternal, t,
                Ptr("OrderBook", [BookOf(FnSymbol, SourceInternal) EXCEPT !.Timestamp = t])),
     MarketData("internal", FnSymbol, DataTypeTrade, SourceInternal, t,
                Ptr("Trade", TradeOf(FnSymbol))),
     MarketData("binance", FnSymbol, DataTypeTicker, SourceExternal, t,
                Ptr("Ticker", [TickerOf(FnSymbol, 2) EXCEPT !.Timestamp = t])),
     MarketData("binance", FnSymbol, DataTypeDepth, SourceExternal, t,
                Ptr("OrderBook", [BookOf(FnSymbol, SourceExternal) EXCEPT !.Timestamp = t])),
     MarketData("binance", FnSymbol, DataTypeTrade, SourceExternal, t,
                Ptr("Trade", TradeOf(FnSymbol)))}

\* an adapter sink handing ProcessData a record received now
Receive(data) ==
    /\ \E tie \in (IF data.Type = DataTypeDepth THEN TieOrders ELSE {"kept"}) :
       LET r == ProcessData(CurMerger, data, now, tie) IN
         /\ ret' = r.ret
         /\ internalData' = r.merger.internalData
         /\ externalData' = r.merger.externalData
         /\ symbolConfigs' = r.merger.symbolConfigs
    /\ lastIn' = data
    /\ lastOp' = "Receive"
    /\ UNCHANGED <<now, hubVars, pipeVars, procVars, adapterVars>>

StaleNext ==
    \/ \E data \in StampedInputs(now) : Receive(data)
    \/ \E d \in TickSteps : Tick(d)

SpecStale == MergerInit /\ [][StaleNext]_vars

\* the age of what a side holds of a kind, its Timestamp being the instant it was
\* received
ReceivedAgo(tbl, kind) ==
    now - (IF kind = DataTypeTicker THEN tbl[FnSymbol].Ticker.Timestamp
                                    ELSE tbl[FnSymbol].Depth.Timestamp)

\* the merge just returned took its ticker, or levels of its book, from this side
UsedSide(source) ==
    /\ lastOp = "Receive"
    /\ ret # Nil
    /\ ret.Source = SourceMerged
    /\ IF ret.Type = DataTypeTicker
       THEN ret.Data.v.LastPriceSource = source
       ELSE IF source = SourceInternal
            THEN ret.Data.v.InternalBidsCount + ret.Data.v.InternalAsksCount > 0
            ELSE ret.Data.v.ExternalBidsCount + ret.Data.v.ExternalAsksCount > 0

\* C37: the ticker or book of a side that a hybrid merge uses was itself received
\* less than 5000 ms before the merge
C37_UsedWasReceivedFresh ==
    /\ UsedSide(SourceInternal)
          => ReceivedAgo(internalData, ret.Type) < DataFreshnessThreshold
    /\ UsedSide(SourceExternal)
          => ReceivedAgo(externalData, ret.Type) < DataFreshnessThreshold

\* the ticker or book a merge uses sits in a cache entry touched less than 5000 ms
\* before the merge
UsedCacheTouchedFresh ==
    /\ UsedSide(SourceInternal)
          => now - internalData[FnSymbol].Timestamp < DataFreshnessThreshold
    /\ UsedSide(SourceExternal)
          => now - externalData[FnSymbol].Timestamp < DataFreshnessThreshold

-----------------------------------------------------------------------------
(* The internal receiver's tickers in the fusion engine *)

\* the record InternalAdapter.handleTicker hands to its sink: Data is the decoded
\* models.Ticker itself, not a pointer to it
FromHandleTicker(data) ==
    /\ data.Type = DataTypeTicker
    /\ data.Source = SourceInternal
    /\ data.Data.form = "val"
    /\ data.Data.kind = "Ticker"

\* C38: after the fusion engine has processed a ticker of the internal receiver
\* for a hybrid symbol, the internal cached side holds that ticker and the merged
\* ticker returned has last_price_source = internal
C38_InternalTickerLeads ==
    [][(/\ lastOp' = "ProcessData"
        /\ FromHandleTicker(lastIn')
        /\ ModeOf(lastIn'.Symbol) = ModeHybrid)
       => /\ HasTicker(Lookup(internalData', lastIn'.Symbol))
          /\ internalData'[lastIn'.Symbol].Ticker = lastIn'.Data.v
          /\ ret' # Nil
          /\ ret'.Source = SourceMerged
          /\ ret'.Data.v.LastPriceSource = SourceInternal]_vars

\* a ticker of the internal side handed over as a pointer is cached and leads the
\* merged ticker
PointerTickerLeads ==
    [][(/\ lastOp' = "ProcessData"
        /\ lastIn'.Type = DataTypeTicker
        /\ lastIn'.Source = SourceInternal
        /\ IsPtrTo(lastIn'.Data, "Ticker")
        /\ ModeOf(lastIn'.Symbol) = ModeHybrid)
       => /\ HasTicker(Lookup(internalData', lastIn'.Symbol))
          /\ internalData'[lastIn'.Symbol].Ticker = lastIn'.Data.v
          /\ ret' # Nil
          /\ ret'.Source = SourceMerged
          /\ ret'.Data.v.LastPriceSource = SourceInternal]_vars

-----------------------------------------------------------------------------
(* SpecBeat: the heartbeat of an adapter whose reader does not fail.  Time  *)
(* is in seconds.  The peer answers a ping with a pong or not at all; it    *)
(* sends no pong that no ping asked for.                                    *)

\* time.NewTicker(20 * time.Second) of keepAlive
PingPeriod == 20

\* time.Since(b.lastPong) > 60*time.Second
PongWait == 60

\* the clock stops here
MaxClock == 240

\* a pong arrives this long after its ping
PongLatencies == {0, 10}

\* the keepAlive goroutine Connect starts: its session, the instant Connect made
\* the session, the next instant of its ticker, whether a ping of it is unanswered,
\* and whether handleReconnect made the session
Keeper(session, at, byReconnect) ==
    [session |-> session, established |-> at, tick |-> at + PingPeriod,
     pinged |-> FALSE, byReconnect |-> byReconnect]

beatRest == <<venue, subscriptions, appending, routines, registered, resent, subscribeCalls,
              sessions, panicked, attempts, dispatched, frameVars, hubVars, mergerVars,
              pipeVars, procVars>>

BeatInit ==
    /\ HubInit /\ MergerIdle /\ PipeIdle /\ ProcIdle /\ AdapterIdle
    /\ lastOp = "init"

\* Connect, called by the collector once the adapter is built
BeatConnect ==
    /\ conn = 0
    /\ closeChan = "open"
    /\ conn' = 1
    /\ connected' = TRUE
    /\ keeper' = Keeper(1, clock, FALSE)
    /\ lastOp' = "Connect"
    /\ UNCHANGED <<clock, lastPong, reconnect, closeChan, beatRest>>

\* the time handleReconnect sleeps before the Connect that follows n failed ones
RECURSIVE SleptBefore(_, _)
SleptBefore(n, delay) == IF n = 0 THEN delay ELSE delay + SleptBefore(n - 1, NextDelay(delay))

\* keepAlive, case <-ticker.C, with a pong less than 60 s old: a ping is written
KeepAlivePing ==
    /\ keeper # Nil
    /\ closeChan = "open"
    /\ keeper.tick <= MaxClock
    /\ connected
    /\ ~(keeper.tick - lastPong > PongWait)
    /\ clock' = keeper.tick
    /\ keeper' = [keeper EXCEPT !.tick = @ + PingPeriod, !.pinged = TRUE]
    /\ lastOp' = "Ping"
    /\ UNCHANGED <<lastPong, conn, connected, reconnect, closeChan, beatRest>>

\* keepAlive, case <-ticker.C, with no pong for more than 60 s: handleReconnect,
\* and the goroutine returns.  Connect fails some times and then succeeds, or fails
\* MaxRetries times
KeepAliveTimeout ==
    /\ keeper # Nil
    /\ closeChan = "open"
    /\ keeper.tick <= MaxClock
    /\ connected
    /\ keeper.tick - lastPong > PongWait
    /\ \E failures \in 0..MaxRetries :
          IF failures < MaxRetries
          THEN /\ clock' = keeper.tick + SleptBefore(failures, InitialDelay)
               /\ conn' = conn + 1
               /\ keeper' = Keeper(conn + 1, clock', TRUE)
          ELSE /\ clock' = keeper.tick + SleptBefore(MaxRetries - 1, InitialDelay)
               /\ conn' = conn
               /\ keeper' = Nil
    /\ connected' = TRUE
    /\ lastOp' = "PongTimeout"
    /\ UNCHANGED <<lastPong, reconnect, closeChan, beatRest>>

\* the pong handler Connect installs, run by the reader when the peer's answer to
\* a ping arrives
PongHandler ==
    /\ keeper # Nil
    /\ closeChan = "open"
    /\ keeper.pinged
    /\ \E d \in PongLatencies :
          /\ clock + d < keeper.tick
          /\ clock' = clock + d
    /\ lastPong' = clock'
    /\ keeper' = [keeper EXCEPT !.pinged = FALSE]
    /\ lastOp' = "Pong"
    /\ UNCHANGED <<conn, connected, reconnect, closeChan, beatRest>>

\* Close: keepAlive returns on closeChan
BeatClose ==
    /\ keeper # Nil
    /\ closeChan = "open"
    /\ closeChan' = "closed"
    /\ reconnect' = FALSE
    /\ connected' = FALSE
    /\ keeper' = Nil
    /\ lastOp' = "Close"
    /\ UNCHANGED <<clock, lastPong, conn, beatRest>>

BeatNext ==
    \/ BeatConnect
    \/ KeepAlivePing
    \/ KeepAliveTimeout
    \/ PongHandler
    \/ BeatClose

SpecBeat == BeatInit /\ [][BeatNext]_vars

\* the instant from which the session in place has gone without a pong: its last
\* pong, or the instant it was established when it has had none
SilentSince == Max(keeper.established, lastPong)

\* C39: the heartbeat declares a session established by a reconnect dead only
\* after 60 s have passed on that session without a pong
C39_DeadAfterSilentMinute ==
    [][(lastOp' = "PongTimeout" /\ keeper.byReconnect)
          => keeper.tick - SilentSince >= PongWait]_vars

\* the session Connect made at the start is declared dead only after 60 s without
\* a pong on it
FirstSessionDeadAfterSilentMinute ==
    [][(lastOp' = "PongTimeout" /\ ~keeper.byReconnect)
          => keeper.tick - SilentSince >= PongWait]_vars

-----------------------------------------------------------------------------
(* The source counts of a merged book *)

CountFrom(levels, source) == Cardinality({i \in DOMAIN levels : levels[i].Source = source})

\* the counts of one side of a merged book are the numbers of its levels tagged
\* internal and external, and add up to its length
CountsMatch(levels, internalCount, externalCount) ==
    /\ internalCount = CountFrom(levels, SourceInternal)
    /\ externalCount = CountFrom(levels, SourceExternal)
    /\ internalCount + externalCount = Len(levels)

\* C40: in every merged order book, for bids and for asks, the internal count is
\* the number of levels tagged internal, the external count the number tagged
\* external, and their sum the number of levels on that side
C40_CountsMatchTags ==
    lastOp = "mergeDepth" =>
        LET book == ret.Data.v
        IN /\ CountsMatch(book.Bids, book.InternalBidsCount, book.ExternalBidsCount)
           /\ CountsMatch(book.Asks, book.InternalAsksCount, book.ExternalAsksCount)

\* the counts match the tags in every book of the supplement strategy, and in
\* every book of the priority strategy from which no level was cut off
UncutCountsMatchTags ==
    (/\ lastOp = "mergeDepth"
     /\ \/ StrategyIs(MergeStrategySupplement)
        \/ /\ Len(FreshLevels(internalData, SourceInternal, "Bids"))
                + Len(FreshLevels(externalData, SourceExternal, "Bids")) <= MergedDepthLimit
           /\ Len(FreshLevels(internalData, SourceInternal, "Asks"))
                + Len(FreshLevels(externalData, SourceExternal, "Asks")) <= MergedDepthLimit)
    => LET book == ret.Data.v
       IN /\ CountsMatch(book.Bids, book.InternalBidsCount, book.ExternalBidsCount)
          /\ CountsMatch(book.Asks, book.InternalAsksCount, book.ExternalAsksCount)

=============================================================================
